---- MODULE Spec2Model ----
(***************************************************************************)
(* A model of bakerd's background engine: the block fetcher (job/block.rs) *)
(* over the block and account repositories, the reward table's idempotent  *)
(* insert (repository/account.rs), the block repository's truncation       *)
(* (repository/block.rs), the account refresher (job/account.rs), the      *)
(* status checker (job/status.rs) and the job scheduler with its graceful  *)
(* shutdown (job/mod.rs).                                                  *)
(*                                                                         *)
(* The sub-systems share the module; each has its own specification and   *)
(* leaves the variables of the others unchanged:                           *)
(*   SpecFetch   one BlockFetcher against a node and the repositories      *)
(*   SpecReward  direct calls of AccountRepository::set_reward             *)
(*   SpecBlockRepo  direct calls of BlockRepository                        *)
(*   SpecRefresh one RefreshAccountsJob against a node whose tip advances  *)
(*   SpecStatus  one StatusChecker against a node and the status repository*)
(*   SpecSched   Scheduler::register/start, the job loops, Jobber::shutdown*)
(***************************************************************************)
EXTENDS Integers, Sequences, FiniteSets, TLC

(***************************************************************************)
(* Bounds of the model.                                                    *)
(***************************************************************************)
\* Highest height the node's chain reaches.
MaxHeight == 5

\* Number of calls that may fail (or crashes that may happen) in one run.
MaxFailures == 2

\* Number of accounts stored in the accounts table.
NumAccounts == 2

\* Number of direct calls of set_reward in one run.
MaxCalls == 3

\* Number of job names that may be registered with the scheduler.
MaxJobs == 2

\* Number of StatusChecker ticks in one run.
MaxTicks == 3

\* Pairs the price job follows.
NumPairs == 2

\* Users of the user repository.
NumUsers == 2

(***************************************************************************)
(* Program constants.                                                      *)
(***************************************************************************)
\* job/block.rs:12 sets GC_OFFSET to 500_000.  The model scales it down to 2
\* so that a chain of MaxHeight blocks reaches the truncation: what matters
\* to the fetcher is the argument  height - GC_OFFSET  of garbage_collect.
GC_OFFSET == 2

\* repository/user.rs:9 sets SESSION_DURATION_MILLIS to seven days.  The model
\* scales it down to 1 so that the times of a call reach the expiration.
SESSION_DURATION_MILLIS == 1

\* job/status.rs:12 sets MAX_NUM_REPORT to 10_000.  The model scales it down
\* to 2 so that MaxTicks reports reach the truncation.
MAX_NUM_REPORT == 2

\* job/block.rs:10
EVENT_TAG_REWARD == "PaydayAccountReward"

\* repository/account.rs: enum RewardKind
KindBaker == "kind_baker"
KindTransactionFee == "kind_transaction_fee"

(***************************************************************************)
(* Option<T>: None is the empty sequence, Some(x) the sequence <<x>>.      *)
(***************************************************************************)
None == <<>>
Some(x) == <<x>>
UnwrapOr(o, d) == IF o = None THEN d ELSE o[1]

Max(S) == CHOOSE x \in S : \A y \in S : y <= x

(***************************************************************************)
(* The node (external collaborator).  Its chain is fixed data: block h has *)
(* hash HashOf(h) and the special events EventsAt(h).                      *)
(***************************************************************************)
Heights == 1..MaxHeight

HashOf(h) == 100 + h
HeightOfHash(hash) == hash - 100

\* An address no stored account has.
UnknownAddr == NumAccounts + 1

Event(tag, account, baker, fees) ==
  [tag |-> tag, account |-> account, baker_reward |-> baker, transaction_fees |-> fees]

\* client/node.rs BlockSummary.special_events of the block at height h.
EventsAt(h) ==
  CASE h % 4 = 1 ->
         << Event(EVENT_TAG_REWARD, Some(1), Some(2), Some(1)),
            Event(EVENT_TAG_REWARD, Some(UnknownAddr), Some(5), Some(6)) >>
    [] h % 4 = 2 ->
         << Event("BlockReward", Some(1), Some(7), Some(8)),
            Event(EVENT_TAG_REWARD, None, Some(4), Some(9)),
            Event(EVENT_TAG_REWARD, Some(2), None, Some(3)) >>
    [] h % 4 = 3 -> << >>
    [] OTHER ->
         << Event(EVENT_TAG_REWARD, Some(1), Some(3), None),
            Event(EVENT_TAG_REWARD, Some(2), Some(1), Some(2)),
            Event(EVENT_TAG_REWARD, Some(1), Some(4), Some(2)) >>

\* client/node.rs BlockInfo returned by get_block_info(hash).
BlockInfoOf(hash) ==
  [block_hash |-> hash,
   block_height |-> HeightOfHash(hash),
   block_slot_time |-> 1000 * HeightOfHash(hash),
   block_baker |-> IF HeightOfHash(hash) % 2 = 1 THEN Some(42) ELSE None]

(***************************************************************************)
(* State.                                                                  *)
(***************************************************************************)
VARIABLES
  \* ---- storage
  blocks,        \* blocks table: sequence of rows, in insertion order
  accounts,      \* accounts table: sequence of rows, by id
  rewards,       \* account_rewards table: sequence of rows, in insertion order
  \* ---- BlockFetcher::execute, one tick
  pc,            \* the call the tick is about to make ("idle": no tick running)
  status,        \* result of the last finished tick: "none", "ok", "err"
  tip,           \* last_block.height
  height,        \* the loop variable `height`
  info,          \* do_block's `info` (None outside do_block)
  rewardsMap,    \* do_rewards' `rewards` HashMap: address -> (baker, fees)
  todo,          \* accounts the `for account in accounts` loop has still to visit
  failures,      \* failed calls and crashes so far
  \* ---- history of the tick (observations only, never read by the code)
  startHeight,   \* height the tick started at (0: not yet known)
  noneAt,        \* height the node returned no hash for in this tick (0: none)
  prevNone,      \* noneAt of the last tick that ended with success
  failedAt,      \* where the last failed tick failed: the call, and `height`
  gcCalls,       \* sequence of the arguments of garbage_collect in this tick
  hashSeen,      \* heights the node returned a hash for, over all ticks
  \* ---- AccountRepository::set_reward called directly
  rwRows,        \* account_rewards table of SpecReward
  rwLast,        \* the last call: its argument and its result
  \* ---- BlockRepository called directly
  brRows,        \* blocks table of SpecBlockRepo
  brLast,        \* the last call: the method, its argument and what it did
  \* ---- RefreshAccountsJob::execute, one tick, and the node it queries
  raAccounts,    \* accounts table of SpecRefresh: sequence of rows, by id
  raTip,         \* height of the node's last block, which advances by itself
  rpc,           \* the call the tick is about to make ("idle": no tick running)
  raStatus,      \* result of the last finished tick: "none", "ok", "err"
  raTodo,        \* accounts the `for account in accounts` loop has still to visit
  raBlock,       \* `last_block.hash` (0: not fetched)
  raInfo,        \* do_account's `info` (None outside do_account)
  raBaker,       \* do_account's `baker`
  raFailures,    \* failed calls so far
  \* ---- history of the tick (observations only, never read by the code)
  raPending,     \* addresses get_for_update returned to this tick
  raRest,        \* addresses the tick had not finished when it ended
  raFailedAt,    \* the call the last failed tick failed at
  raTipCalls,    \* number of get_last_block calls of this tick
  raHashes,      \* block hashes the account queries of this tick were made with
  raFlagAt,      \* per address, height of the last block whose rewards BlockFetcher
                 \* flagged it for while ticks may be running (0: none)
  \* ---- StatusChecker::execute, one tick
  stReports,     \* statuses table: sequence of rows, in insertion order
  stClock,       \* Utc::now() of the tick, which grows from tick to tick
  spc,           \* the call the tick is about to make ("idle": no tick running)
  stStatus,      \* result of the last finished tick: "none", "ok", "err"
  stResources,   \* what get_system_stats returned (None before)
  stNode,        \* what get_node_status has gathered, then its Option result
  stFailures,    \* failed repository calls so far
  \* ---- history of the tick (observations only, never read by the code)
  stNodeErr,     \* the node query that failed in this tick ("none": none did)
  stFailedAt,    \* the repository call the last failed tick failed at
  \* ---- Scheduler / Jobber
  sJobs,         \* Scheduler.jobs: name -> schedule kind
  sPhase,        \* "new", "started", "sent" (shutdown awaits the handle), "returned"
  jpc,           \* per job loop: "sleep", "running", "barrier", "done"
  jDue,          \* per job loop: the timer of the current sleep is due
  jSeen,         \* per job loop: version its watch receiver has seen
  jGen,          \* per job loop: barrier generation it arrived in
  jLast,         \* what the last execute() that returned has returned ("none": none did)
  jMid,          \* per job loop: it was inside execute() when the signal was sent,
                 \* and has not taken the closed branch yet
  wVersion,      \* version of the watch channel (0: false, 1: true was sent)
  bSize,         \* Barrier::new(n)
  bArrived,      \* arrivals of the barrier's current generation
  bGen,          \* barrier generation (number of releases)
  hpc,           \* handle task: "wait", "select", "barrier", "done"
  hSeen,         \* version the handle's receiver has seen
  hGen,          \* barrier generation the handle arrived in
  hResult,       \* "none", "graceful", "timeout"
  graceExpired,  \* SCHEDULER_TIMEOUT has elapsed since the handle armed it
  \* ---- price repository and PriceRefresher::execute
  prices,        \* prices table: sequence of rows, in insertion order
  prLast,        \* the last direct repository call and its result
  prLatest,      \* history: per pair, the price of its last set_price that succeeded
  xpc,           \* the call the tick is about to make ("idle": no tick running)
  xTodo,         \* prices get_prices returned that the loop has not reached
  xStatus,       \* result of the last finished tick: "none", "ok", "err"
  xTicks,        \* ticks begun so far
  xFailures,     \* failed calls so far
  \* ---- history of the tick (observations only, never read by the code)
  xCalls,        \* client and repository calls of this tick, in order
  xReturned,     \* what get_prices returned in this tick
  xBefore,       \* the prices table when the tick began
  \* ---- reward table, insert_rewards and RewardRepairer::execute
  rpRewards,     \* account_rewards table: sequence of rows, in insertion order
  ipc,           \* BlockFetcher's insert_rewards: "idle", "fee" (second row next)
  iArgs,         \* the TransactionFee row that insert_rewards is about to set
  iLast,         \* <<height, address>> of BlockFetcher's last insert_rewards
  iFailures,     \* calls of insert_rewards that failed at the second row so far
  qRev,          \* revision of the amounts the node reports during the tick
  qpc,           \* repairer: "idle", "accounts", "rewards", "row", "event", "fee"
  qAccounts,     \* accounts left, the first being the one the loop is at
  qRewards,      \* reward rows left of the account, the first being the current
  qEvents,       \* events left of the summary, the first being the current
  qStatus,       \* result of the repairer tick that finished last, "none" once
                 \* a tick began or the table changed after it
  \* ---- history of the tick (observations only, never read by the code)
  qSummaries,    \* get_block_summary calls of this tick: <<account_id, block_hash>>
  qInserts,      \* insert_rewards calls of this tick
  qBefore,       \* the reward table when the tick began
  \* ---- users, sessions and the admin controllers
  users,         \* users table: sequence of rows, by id
  user_sessions, \* user_sessions table: sequence of rows, in insertion order
  uuid,          \* number of session ids Uuid::new_v4 has produced
  ctlAccounts,   \* accounts table the set_account controller writes
  pairsTable,    \* pairs table: sequence of rows, by id
  apiLast        \* the last repository call or request: what it was, the
                 \* repository calls it made in order, and its result

varsStore == <<blocks, accounts, rewards>>
varsTick == <<pc, status, tip, height, info, rewardsMap, todo, failures>>
varsHist == <<startHeight, noneAt, prevNone, failedAt, gcCalls, hashSeen>>
varsFetch == <<varsStore, varsTick, varsHist>>
varsReward == <<rwRows, rwLast>>
varsBlockRepo == <<brRows, brLast>>
varsRefresh == <<raAccounts, raTip, rpc, raStatus, raTodo, raBlock, raInfo, raBaker,
                 raFailures, raPending, raRest, raFailedAt, raTipCalls, raHashes,
                 raFlagAt>>
varsStatus == <<stReports, stClock, spc, stStatus, stResources, stNode, stFailures,
                stNodeErr, stFailedAt>>
varsSched == <<sJobs, sPhase, jpc, jDue, jSeen, jGen, jLast, jMid, wVersion, bSize,
               bArrived, bGen, hpc, hSeen, hGen, hResult, graceExpired>>
varsPrice == <<prices, prLast, prLatest, xpc, xTodo, xStatus, xTicks, xFailures,
               xCalls, xReturned, xBefore>>
varsRepair == <<rpRewards, qRev, ipc, iArgs, iLast, iFailures, qpc, qAccounts, qRewards,
                qEvents, qStatus, qSummaries, qInserts, qBefore>>
varsApi == <<users, user_sessions, uuid, ctlAccounts, pairsTable, apiLast>>
vars == <<varsFetch, varsReward, varsBlockRepo, varsRefresh, varsStatus, varsSched, varsPrice,
         varsRepair, varsApi>>

\* What the block fetcher never touches.
notFetch == <<varsReward, varsBlockRepo, varsRefresh, varsSched, varsStatus, varsPrice,
  varsRepair, varsApi>>

(***************************************************************************)
(* Rows.                                                                   *)
(***************************************************************************)
\* The block the migration inserts (repository/block.rs:141).
SeedBlock == [height |-> 0, hash |-> HashOf(0), slot_time_ms |-> 0, baker |-> 0]

AccountRow(a) == [id |-> 10 + a, address |-> a, pending_update |-> FALSE]

InitAccounts == [a \in 1..NumAccounts |-> AccountRow(a)]

NewReward(account_id, hash, amount, epoch_ms, kind) ==
  [account_id |-> account_id, block_hash |-> hash, amount |-> amount,
   epoch_ms |-> epoch_ms, kind |-> kind]

(***************************************************************************)
(* BlockRepository (repository/block.rs).                                  *)
(***************************************************************************)
\* get_last_block: the row of greatest height, NotFound (None) on no row.
GetLastBlock(rows) ==
  IF rows = <<>> THEN None
  ELSE Some(CHOOSE r \in {rows[i] : i \in DOMAIN rows} :
              \A i \in DOMAIN rows : rows[i].height <= r.height)

\* store: a plain insert.
Store(rows, block) == Append(rows, block)

\* A garbage_collect that deletes the row at below_height too.
GarbageCollectInclusive(rows, below_height) ==
  SelectSeq(rows, LAMBDA r : ~(r.height <= below_height))

\* garbage_collect: delete the rows with height < below_height.
GarbageCollect(rows, below_height) ==
  SelectSeq(rows, LAMBDA r : ~(r.height < below_height))

(***************************************************************************)
(* AccountRepository (repository/account.rs).                              *)
(***************************************************************************)
\* get_accounts: every row when the filter has no addresses, else the rows
\* whose address is one of them.
GetAccounts(rows, addresses) ==
  IF addresses = None THEN rows
  ELSE SelectSeq(rows, LAMBDA r : r.address \in addresses[1])

SameRewardKey(r, s) ==
  /\ r.account_id = s.account_id
  /\ r.block_hash = s.block_hash
  /\ r.kind = s.kind

\* A set_reward without the conflict clause: a plain insert.
SetRewardAlways(rows, reward) == Append(rows, reward)

\* A set_reward that updates the row on conflict.
SetRewardUpdate(rows, reward) ==
  IF \E i \in DOMAIN rows : SameRewardKey(rows[i], reward)
  THEN [i \in DOMAIN rows |->
          IF SameRewardKey(rows[i], reward) THEN reward ELSE rows[i]]
  ELSE Append(rows, reward)

\* set_reward: insert, on conflict of (account_id, block_hash, kind) do nothing.
SetReward(rows, reward) ==
  IF \E i \in DOMAIN rows : SameRewardKey(rows[i], reward)
  THEN rows
  ELSE Append(rows, reward)

\* A set_for_update whose filter matches no row.
SetForUpdateNoRow(rows, addrs, pending) == rows

\* set_for_update: update pending_update of the rows whose address is listed.
SetForUpdate(rows, addrs, pending) ==
  [i \in DOMAIN rows |->
     IF rows[i].address \in addrs
     THEN [rows[i] EXCEPT !.pending_update = pending]
     ELSE rows[i]]

(***************************************************************************)
(* BlockFetcher (job/block.rs).                                            *)
(***************************************************************************)
EmptyMap == [a \in {} |-> <<0, 0>>]

\* An insert that keeps the value a key already has (entry().or_insert()).
MapInsertKeepFirst(m, k, v) ==
  [a \in DOMAIN m \cup {k} |-> IF a \in DOMAIN m THEN m[a] ELSE v]

\* HashMap::insert: a later value for the same key replaces the earlier one.
MapInsert(m, k, v) == [a \in DOMAIN m \cup {k} |-> IF a = k THEN v ELSE m[a]]

\* The loop of do_rewards without the test of the tag (lines 66-68).
RECURSIVE CollectRewardsAnyTag(_, _, _)
CollectRewardsAnyTag(events, i, m) ==
  IF i > Len(events) THEN m
  ELSE LET event == events[i] IN
       IF event.account = None THEN CollectRewardsAnyTag(events, i + 1, m)
       ELSE CollectRewardsAnyTag(events, i + 1,
              MapInsert(m, event.account[1],
                        << UnwrapOr(event.baker_reward, 0),
                           UnwrapOr(event.transaction_fees, 0) >>))

\* do_rewards, lines 63-79: the map address -> (baker_reward, transaction_fees)
\* of the PaydayAccountReward events that name an account, absent amounts 0.
RECURSIVE CollectRewards(_, _, _)
CollectRewards(events, i, m) ==
  IF i > Len(events) THEN m
  ELSE LET event == events[i] IN
       IF event.tag # EVENT_TAG_REWARD THEN CollectRewards(events, i + 1, m)
       ELSE IF event.account = None THEN CollectRewards(events, i + 1, m)
       ELSE CollectRewards(events, i + 1,
              MapInsert(m, event.account[1],
                        << UnwrapOr(event.baker_reward, 0),
                           UnwrapOr(event.transaction_fees, 0) >>))

\* The map of a do_rewards without the test of the tag.
RewardsOfAnyTag(events) == CollectRewardsAnyTag(events, 1, EmptyMap)

RewardsOf(events) == CollectRewards(events, 1, EmptyMap)

\* do_block, lines 41-46.
NewBlockOf(block_info) ==
  [height |-> block_info.block_height,
   hash |-> block_info.block_hash,
   slot_time_ms |-> block_info.block_slot_time,
   baker |-> UnwrapOr(block_info.block_baker, 0)]

NoFailure == [pc |-> "none", height |-> 0]

\* The locals of a tick that is not running.
NoLocals ==
  /\ tip' = 0
  /\ height' = 0
  /\ info' = None
  /\ rewardsMap' = EmptyMap
  /\ todo' = <<>>

\* The scheduler calls execute().
FetchBegin ==
  /\ pc = "idle"
  /\ UNCHANGED notFetch
  /\ pc' = "tip"
  /\ startHeight' = 0
  /\ noneAt' = 0
  /\ gcCalls' = <<>>
  /\ UNCHANGED <<varsStore, status, tip, height, info, rewardsMap, todo, failures,
                 prevNone, failedAt, hashSeen>>

\* line 117: client.get_last_block().
FetchTip ==
  /\ pc = "tip"
  /\ UNCHANGED notFetch
  /\ \E t \in 0..MaxHeight : tip' = t
  /\ pc' = "last"
  /\ UNCHANGED <<varsStore, status, height, info, rewardsMap, todo, failures, varsHist>>

\* lines 119-121: block_repository.get_last_block(); NotFound is returned
\* to the caller by `?`.
FetchLast ==
  /\ pc = "last"
  /\ UNCHANGED notFetch
  /\ LET current_block == GetLastBlock(blocks) IN
       IF current_block = None
       THEN /\ pc' = "idle"
            /\ status' = "err"
            /\ failedAt' = [pc |-> "last", height |-> 0]
            /\ NoLocals
            /\ UNCHANGED <<startHeight, prevNone>>
       ELSE /\ height' = current_block[1].height + 1
            /\ startHeight' = current_block[1].height + 1
            /\ prevNone' = 0
            /\ pc' = "hash"
            /\ UNCHANGED <<status, failedAt, tip, info, rewardsMap, todo>>
  /\ UNCHANGED <<varsStore, failures, noneAt, gcCalls, hashSeen>>

\* A loop that goes on to the next height (`continue`) when the node has no
\* hash, where the code leaves the loop (`break`).
FetchHashContinue ==
  /\ pc = "hash"
  /\ UNCHANGED notFetch
  /\ IF height <= tip
     THEN \/ /\ info' = Some(HashOf(height))
             /\ hashSeen' = hashSeen \cup {height}
             /\ pc' = "info"
             /\ UNCHANGED <<noneAt, height>>
          \/ /\ noneAt' = height
             /\ height' = height + 1
             /\ pc' = "hash"
             /\ UNCHANGED <<info, hashSeen>>
     ELSE /\ pc' = "gc"
          /\ UNCHANGED <<info, hashSeen, noneAt, height>>
  /\ UNCHANGED <<varsStore, status, tip, rewardsMap, todo, failures,
                 startHeight, prevNone, failedAt, gcCalls>>

\* lines 123-130: the loop condition and client.get_block_at_height(height).
FetchHash ==
  /\ pc = "hash"
  /\ UNCHANGED notFetch
  /\ IF height <= tip
     THEN \/ /\ info' = Some(HashOf(height))
             /\ hashSeen' = hashSeen \cup {height}
             /\ pc' = "info"
             /\ UNCHANGED noneAt
          \/ /\ noneAt' = height
             /\ pc' = "gc"
             /\ UNCHANGED <<info, hashSeen>>
     ELSE /\ pc' = "gc"
          /\ UNCHANGED <<info, hashSeen, noneAt>>
  /\ UNCHANGED <<varsStore, status, tip, height, rewardsMap, todo, failures,
                 startHeight, prevNone, failedAt, gcCalls>>

\* line 36: client.get_block_info(block_hash).
FetchInfo ==
  /\ pc = "info"
  /\ UNCHANGED notFetch
  /\ info' = Some(BlockInfoOf(info[1]))
  /\ pc' = "summary"
  /\ UNCHANGED <<varsStore, status, tip, height, rewardsMap, todo, failures, varsHist>>

\* lines 61-79: client.get_block_summary(hash) and the rewards map.
FetchSummary ==
  /\ pc = "summary"
  /\ UNCHANGED notFetch
  /\ rewardsMap' = RewardsOf(EventsAt(HeightOfHash(info[1].block_hash)))
  /\ pc' = "accounts"
  /\ UNCHANGED <<varsStore, status, tip, height, info, todo, failures, varsHist>>

\* A do_rewards that leaves out the loop over the accounts.
FetchAccountsNoLoop ==
  /\ pc = "accounts"
  /\ UNCHANGED notFetch
  /\ todo' = <<>>
  /\ pc' = "flag"
  /\ UNCHANGED <<varsStore, status, tip, height, info, rewardsMap, failures, varsHist>>

\* lines 81-86: account_repository.get_accounts(filter by the map's keys).
FetchAccounts ==
  /\ pc = "accounts"
  /\ UNCHANGED notFetch
  /\ todo' = GetAccounts(accounts, Some(DOMAIN rewardsMap))
  /\ pc' = IF todo' = <<>> THEN "flag" ELSE "baker"
  /\ UNCHANGED <<varsStore, status, tip, height, info, rewardsMap, failures, varsHist>>

\* lines 88-99 and insert_rewards, lines 210-218: the Baker row of the
\* account the loop is at; an account the map does not hold is passed over.
FetchBaker ==
  /\ pc = "baker"
  /\ UNCHANGED notFetch
  /\ LET account == Head(todo) IN
       IF account.address \in DOMAIN rewardsMap
       THEN /\ rewards' = SetReward(rewards,
                            NewReward(account.id, info[1].block_hash,
                                      rewardsMap[account.address][1],
                                      info[1].block_slot_time, KindBaker))
            /\ pc' = "fee"
            /\ UNCHANGED todo
       ELSE /\ todo' = Tail(todo)
            /\ pc' = IF Tail(todo) = <<>> THEN "flag" ELSE "baker"
            /\ UNCHANGED rewards
  /\ UNCHANGED <<blocks, accounts, status, tip, height, info, rewardsMap, failures,
                 varsHist>>

\* insert_rewards, lines 220-228: the TransactionFee row, then the next account.
FetchFee ==
  /\ pc = "fee"
  /\ UNCHANGED notFetch
  /\ LET account == Head(todo) IN
       rewards' = SetReward(rewards,
                    NewReward(account.id, info[1].block_hash,
                              rewardsMap[account.address][2],
                              info[1].block_slot_time, KindTransactionFee))
  /\ todo' = Tail(todo)
  /\ pc' = IF Tail(todo) = <<>> THEN "flag" ELSE "baker"
  /\ UNCHANGED <<blocks, accounts, status, tip, height, info, rewardsMap, failures,
                 varsHist>>

\* The flag step that moves on to the store without writing any flag.
FetchFlagSkipped ==
  /\ pc = "flag"
  /\ UNCHANGED notFetch
  /\ pc' = "store"
  /\ UNCHANGED <<accounts, blocks, rewards, status, tip, height, info,
                 rewardsMap, todo, failures, varsHist>>

\* lines 103-106: account_repository.set_for_update(rewards.keys(), true).
FetchFlag ==
  /\ pc = "flag"
  /\ UNCHANGED notFetch
  /\ accounts' = SetForUpdate(accounts, DOMAIN rewardsMap, TRUE)
  /\ pc' = "store"
  /\ UNCHANGED <<blocks, rewards, status, tip, height, info, rewardsMap, todo,
                 failures, varsHist>>

\* A tick that stores one block and leaves the loop.
FetchStoreThenStop ==
  /\ pc = "store"
  /\ UNCHANGED notFetch
  /\ blocks' = Store(blocks, NewBlockOf(info[1]))
  /\ height' = height + 1
  /\ info' = None
  /\ rewardsMap' = EmptyMap
  /\ pc' = "gc"
  /\ UNCHANGED <<accounts, rewards, status, tip, todo, failures, varsHist>>

\* line 48: block_repository.store(new_block), and line 132: height += 1.
FetchStore ==
  /\ pc = "store"
  /\ UNCHANGED notFetch
  /\ blocks' = Store(blocks, NewBlockOf(info[1]))
  /\ height' = height + 1
  /\ info' = None
  /\ rewardsMap' = EmptyMap
  /\ pc' = "hash"
  /\ UNCHANGED <<accounts, rewards, status, tip, todo, failures, varsHist>>

\* A truncation computed from the node's tip, not from `height`.
FetchGcAtTip ==
  /\ pc = "gc"
  /\ UNCHANGED notFetch
  /\ blocks' = GarbageCollect(blocks, tip + 1 - GC_OFFSET)
  /\ gcCalls' = Append(gcCalls, tip + 1 - GC_OFFSET)
  /\ pc' = "idle"
  /\ status' = "ok"
  /\ prevNone' = noneAt
  /\ NoLocals
  /\ UNCHANGED <<accounts, rewards, failures, startHeight, noneAt, failedAt, hashSeen>>

\* line 136: block_repository.garbage_collect(height - GC_OFFSET); the tick
\* returns Ok.
FetchGc ==
  /\ pc = "gc"
  /\ UNCHANGED notFetch
  /\ blocks' = GarbageCollect(blocks, height - GC_OFFSET)
  /\ gcCalls' = Append(gcCalls, height - GC_OFFSET)
  /\ pc' = "idle"
  /\ status' = "ok"
  /\ prevNone' = noneAt
  /\ NoLocals
  /\ UNCHANGED <<accounts, rewards, failures, startHeight, noneAt, failedAt, hashSeen>>

\* A tick that makes the failed call again instead of returning the error.
FetchFailRetries ==
  /\ pc # "idle"
  /\ UNCHANGED notFetch
  /\ failures < MaxFailures
  /\ failures' = failures + 1
  /\ UNCHANGED <<varsStore, pc, status, tip, height, info, rewardsMap, todo, varsHist>>

\* The call the tick is about to make returns an error, which `?` returns
\* from execute(), or the process stops there and is started again: either
\* way the call has no effect and the tick is over.
FetchFail ==
  /\ pc # "idle"
  /\ UNCHANGED notFetch
  /\ failures < MaxFailures
  /\ failures' = failures + 1
  /\ pc' = "idle"
  /\ status' = "err"
  /\ failedAt' = [pc |-> pc, height |-> height]
  /\ NoLocals
  /\ UNCHANGED <<varsStore, startHeight, noneAt, prevNone, gcCalls, hashSeen>>

NextFetch ==
  \/ FetchBegin
  \/ FetchTip
  \/ FetchLast
  \/ FetchHash
  \/ FetchInfo
  \/ FetchSummary
  \/ FetchAccounts
  \/ FetchBaker
  \/ FetchFee
  \/ FetchFlag
  \/ FetchStore
  \/ FetchGc
  \/ FetchFail

(***************************************************************************)
(* AccountRepository::set_reward called directly, with any argument.       *)
(***************************************************************************)
\* What these calls never touch.
notReward == <<varsFetch, varsBlockRepo, varsRefresh, varsSched, varsStatus, varsPrice,
  varsRepair, varsApi>>

RewardArgs ==
  { NewReward(account_id, hash, amount, 1000, kind) :
      account_id \in {11, 12}, hash \in {HashOf(1), HashOf(2)}, amount \in {1, 2},
      kind \in {KindBaker, KindTransactionFee} }

\* repository/account.rs:307-320: the insert, and Ok(()) whatever it did.
RepoSetReward(reward) ==
  /\ rwLast.calls < MaxCalls
  /\ rwRows' = SetReward(rwRows, reward)
  /\ rwLast' = [reward |-> Some(reward), result |-> "ok", calls |-> rwLast.calls + 1]
  /\ UNCHANGED notReward

NextReward == \E reward \in RewardArgs : RepoSetReward(reward)

(***************************************************************************)
(* BlockRepository called directly: store, garbage_collect with any        *)
(* threshold, get_last_block.                                              *)
(***************************************************************************)
\* What these calls never touch.
notBlockRepo == <<varsFetch, varsReward, varsRefresh, varsSched, varsStatus, varsPrice,
  varsRepair, varsApi>>

\* The rows store is called with: the node's block of each height.
BlockArgs == { NewBlockOf(BlockInfoOf(HashOf(h))) : h \in 0..MaxHeight }

\* The thresholds garbage_collect is called with.
BelowArgs == 0..(MaxHeight + 1)

\* repository/block.rs:104-111
RepoStore(block) ==
  /\ brLast.calls < MaxCalls
  /\ brRows' = Store(brRows, block)
  /\ brLast' = [op |-> "store", below |-> 0, deleted |-> 0, result |-> None,
               calls |-> brLast.calls + 1]
  /\ UNCHANGED notBlockRepo

\* repository/block.rs:113-124
RepoGarbageCollect(below_height) ==
  /\ brLast.calls < MaxCalls
  /\ brRows' = GarbageCollect(brRows, below_height)
  /\ brLast' = [op |-> "garbage_collect", below |-> below_height,
               deleted |-> Len(brRows) - Len(brRows'), result |-> None,
               calls |-> brLast.calls + 1]
  /\ UNCHANGED notBlockRepo

\* repository/block.rs:69-80
RepoGetLastBlock ==
  /\ brLast.op # "get_last_block"
  /\ brLast' = [brLast EXCEPT !.op = "get_last_block",
                              !.result = GetLastBlock(brRows)]
  /\ UNCHANGED brRows
  /\ UNCHANGED notBlockRepo

NextBlockRepo ==
  \/ \E block \in BlockArgs : RepoStore(block)
  \/ \E below_height \in BelowArgs : RepoGarbageCollect(below_height)
  \/ RepoGetLastBlock

(***************************************************************************)
(* RefreshAccountsJob (job/account.rs) over the account repository and a   *)
(* node whose last block advances while the job runs.                      *)
(*                                                                         *)
(* What the node answers depends on the block the query names: amounts     *)
(* are integers (Decimal in the code), a lottery power is in thousandths.  *)
(***************************************************************************)
\* What the job never touches.
notRefresh == <<varsFetch, varsReward, varsBlockRepo, varsSched, varsStatus, varsPrice,
  varsRepair, varsApi>>

\* client/node.rs AccountBaker: odd addresses stake, by an amount that
\* differs from block to block.
AccountBakerOf(hash, address) ==
  IF address % 2 = 1
  THEN Some([staked_amount |-> 1 + (HeightOfHash(hash) % 2)])
  ELSE None

\* client/node.rs AccountInfo returned by get_account_info(hash, address).
AccountInfoOf(hash, address) ==
  [account_address |-> address,
   account_amount |-> 10 * (1 + (HeightOfHash(hash) % 2)) + address,
   account_baker |-> AccountBakerOf(hash, address)]

\* client/node.rs get_baker(hash, address): the baker of the address in the
\* block's birk parameters, None when it has none there.
BakerOf(hash, address) ==
  IF address % 2 = 1 /\ HeightOfHash(hash) % 2 = 1
  THEN Some([baker_account |-> address, baker_lottery_power |-> 250 * address])
  ELSE None

\* repository/account.rs models::Account, as NewAccount::new leaves it.
RefreshAccountRow(a) ==
  [id |-> 10 + a, address |-> a, lottery_power |-> 0, balance |-> 0, stake |-> 0,
   pending_update |-> FALSE]

\* get_for_update: the rows with pending_update = true.
GetForUpdate(rows) == SelectSeq(rows, LAMBDA r : r.pending_update)

\* set_account: insert, or on a conflict of address update every column of
\* NewAccount.
SetAccount(rows, account) ==
  IF \E i \in DOMAIN rows : rows[i].address = account.address
  THEN [i \in DOMAIN rows |->
          IF rows[i].address = account.address
          THEN [id |-> rows[i].id,
                address |-> account.address,
                lottery_power |-> account.lottery_power,
                balance |-> account.balance,
                stake |-> account.stake,
                pending_update |-> account.pending_update]
          ELSE rows[i]]
  ELSE Append(rows, [id |-> 11 + Len(rows),
                     address |-> account.address,
                     lottery_power |-> account.lottery_power,
                     balance |-> account.balance,
                     stake |-> account.stake,
                     pending_update |-> account.pending_update])

\* A do_account that stores the node's total amount as the balance.
NewAccountTotalAmount(address, account_info, baker) ==
  [address |-> address,
   balance |-> account_info.account_amount,
   stake |-> IF account_info.account_baker = None THEN 0
             ELSE account_info.account_baker[1].staked_amount,
   lottery_power |-> IF baker = None THEN 0 ELSE baker[1].baker_lottery_power,
   pending_update |-> FALSE]

\* do_account, lines 30 and 36-46: the NewAccount it stores.
NewAccountOf(address, account_info, baker) ==
  LET stake == IF account_info.account_baker = None THEN 0
               ELSE account_info.account_baker[1].staked_amount
  IN [address |-> address,
      balance |-> account_info.account_amount - stake,
      stake |-> stake,
      lottery_power |-> IF baker = None THEN 0 ELSE baker[1].baker_lottery_power,
      pending_update |-> FALSE]

AddressesOf(rows) == {rows[i].address : i \in DOMAIN rows}

\* The locals of a tick that is not running.
NoRefreshLocals ==
  /\ raTodo' = <<>>
  /\ raInfo' = None
  /\ raBaker' = None

\* The node finalizes one more block.
NodeAdvances ==
  /\ raTip < MaxHeight
  /\ raTip' = raTip + 1
  /\ UNCHANGED <<raAccounts, rpc, raStatus, raTodo, raBlock, raInfo, raBaker,
                 raFailures, raPending, raRest, raFailedAt, raTipCalls, raHashes>>
  /\ UNCHANGED raFlagAt
  /\ UNCHANGED notRefresh

\* Between two ticks the block fetcher flags an account: set_for_update.
AccountFlagged(address) ==
  /\ rpc = "idle"
  /\ raAccounts' = SetForUpdate(raAccounts, {address}, TRUE)
  /\ raAccounts' # raAccounts
  /\ raStatus' = "none"
  /\ raPending' = {}
  /\ raRest' = {}
  /\ UNCHANGED <<raTip, rpc, raTodo, raBlock, raInfo, raBaker, raFailures,
                 raFailedAt, raTipCalls, raHashes>>
  /\ UNCHANGED raFlagAt
  /\ UNCHANGED notRefresh

\* While a tick may be running, BlockFetcher ingests the block at height h,
\* one the node has and above those it ingested before, and do_rewards
\* flags the stored accounts its reward events name (job/block.rs 103-106).
FetcherFlags(h) ==
  /\ h <= raTip
  /\ \A a \in DOMAIN raFlagAt : raFlagAt[a] < h
  /\ LET addrs == DOMAIN RewardsOf(EventsAt(h)) IN
       /\ addrs \cap AddressesOf(raAccounts) # {}
       /\ raAccounts' = SetForUpdate(raAccounts, addrs, TRUE)
       /\ raFlagAt' = [a \in DOMAIN raFlagAt |->
                         IF a \in addrs THEN h ELSE raFlagAt[a]]
  /\ UNCHANGED <<raTip, rpc, raStatus, raTodo, raBlock, raInfo, raBaker, raFailures,
                 raPending, raRest, raFailedAt, raTipCalls, raHashes>>
  /\ UNCHANGED notRefresh

\* The scheduler calls execute().
RefreshBegin ==
  /\ rpc = "idle"
  /\ rpc' = "pending"
  /\ raBlock' = 0
  /\ raPending' = {}
  /\ raRest' = {}
  /\ raTipCalls' = 0
  /\ raHashes' = {}
  /\ UNCHANGED <<raAccounts, raTip, raStatus, raTodo, raInfo, raBaker, raFailures,
                 raFailedAt>>
  /\ UNCHANGED raFlagAt
  /\ UNCHANGED notRefresh

\* line 57: repository.get_for_update().
RefreshPending ==
  /\ rpc = "pending"
  /\ raTodo' = GetForUpdate(raAccounts)
  /\ raPending' = AddressesOf(raTodo')
  /\ raRest' = AddressesOf(raTodo')
  /\ rpc' = "tip"
  /\ UNCHANGED <<raAccounts, raTip, raStatus, raBlock, raInfo, raBaker, raFailures,
                 raFailedAt, raTipCalls, raHashes>>
  /\ UNCHANGED raFlagAt
  /\ UNCHANGED notRefresh

\* line 60: client.get_last_block(); with no pending account the loop has
\* nothing to do and the tick returns Ok.
RefreshTip ==
  /\ rpc = "tip"
  /\ raBlock' = HashOf(raTip)
  /\ raTipCalls' = raTipCalls + 1
  /\ IF raTodo = <<>>
     THEN /\ rpc' = "idle"
          /\ raStatus' = "ok"
     ELSE /\ rpc' = "info"
          /\ UNCHANGED raStatus
  /\ UNCHANGED <<raAccounts, raTip, raTodo, raInfo, raBaker, raFailures, raPending,
                 raRest, raFailedAt, raHashes>>
  /\ UNCHANGED raFlagAt
  /\ UNCHANGED notRefresh

\* do_account, lines 23-26: client.get_account_info(last_block.hash, address).
RefreshInfo ==
  /\ rpc = "info"
  /\ raInfo' = Some(AccountInfoOf(raBlock, Head(raTodo).address))
  /\ raHashes' = raHashes \cup {raBlock}
  /\ rpc' = "baker"
  /\ UNCHANGED <<raAccounts, raTip, raStatus, raTodo, raBlock, raBaker, raFailures,
                 raPending, raRest, raFailedAt, raTipCalls>>
  /\ UNCHANGED raFlagAt
  /\ UNCHANGED notRefresh

\* A do_account that asks for the baker at the node's tip of the moment.
RefreshBakerAtTip ==
  /\ rpc = "baker"
  /\ raBaker' = BakerOf(HashOf(raTip), Head(raTodo).address)
  /\ raHashes' = raHashes \cup {HashOf(raTip)}
  /\ rpc' = "set"
  /\ UNCHANGED <<raAccounts, raTip, raStatus, raTodo, raBlock, raInfo, raFailures,
                 raPending, raRest, raFailedAt, raTipCalls>>
  /\ UNCHANGED raFlagAt
  /\ UNCHANGED notRefresh

\* do_account, line 33: client.get_baker(last_block.hash, address).
RefreshBaker ==
  /\ rpc = "baker"
  /\ raBaker' = BakerOf(raBlock, Head(raTodo).address)
  /\ raHashes' = raHashes \cup {raBlock}
  /\ rpc' = "set"
  /\ UNCHANGED <<raAccounts, raTip, raStatus, raTodo, raBlock, raInfo, raFailures,
                 raPending, raRest, raFailedAt, raTipCalls>>
  /\ UNCHANGED raFlagAt
  /\ UNCHANGED notRefresh

\* do_account, lines 36-48: repository.set_account(new_account); then the
\* next account of the list, or Ok(()) after the last.
RefreshSet ==
  /\ rpc = "set"
  /\ raAccounts' = SetAccount(raAccounts,
                              NewAccountOf(Head(raTodo).address, raInfo[1], raBaker))
  /\ raRest' = raRest \ {Head(raTodo).address}
  /\ raInfo' = None
  /\ raBaker' = None
  /\ raTodo' = Tail(raTodo)
  /\ IF Tail(raTodo) = <<>>
     THEN /\ rpc' = "idle"
          /\ raStatus' = "ok"
     ELSE /\ rpc' = "info"
          /\ UNCHANGED raStatus
  /\ UNCHANGED <<raTip, raBlock, raFailures, raPending, raFailedAt, raTipCalls,
                 raHashes>>
  /\ UNCHANGED raFlagAt
  /\ UNCHANGED notRefresh

\* A tick that gives up on the account whose query failed: it marks the
\* account as refreshed before it returns the error.
RefreshFailClearsPending ==
  /\ rpc # "idle"
  /\ raFailures < MaxFailures
  /\ raFailures' = raFailures + 1
  /\ raAccounts' = IF raTodo = <<>> THEN raAccounts
                   ELSE SetForUpdate(raAccounts, {Head(raTodo).address}, FALSE)
  /\ rpc' = "idle"
  /\ raStatus' = "err"
  /\ raFailedAt' = rpc
  /\ NoRefreshLocals
  /\ UNCHANGED <<raTip, raBlock, raPending, raRest, raTipCalls, raHashes>>
  /\ UNCHANGED raFlagAt
  /\ UNCHANGED notRefresh

\* The call the tick is about to make returns an error, which `?` returns
\* from do_account and from execute(): the call has no effect and the tick
\* is over.
RefreshFail ==
  /\ rpc # "idle"
  /\ raFailures < MaxFailures
  /\ raFailures' = raFailures + 1
  /\ rpc' = "idle"
  /\ raStatus' = "err"
  /\ raFailedAt' = rpc
  /\ NoRefreshLocals
  /\ UNCHANGED <<raAccounts, raTip, raBlock, raPending, raRest, raTipCalls, raHashes>>
  /\ UNCHANGED raFlagAt
  /\ UNCHANGED notRefresh

NextRefresh ==
  \/ NodeAdvances
  \/ \E address \in 1..NumAccounts : AccountFlagged(address)
  \/ RefreshBegin
  \/ RefreshPending
  \/ RefreshTip
  \/ RefreshInfo
  \/ RefreshBaker
  \/ RefreshSet
  \/ RefreshFail

\* The job and BlockFetcher side by side: the flags are written at any point
\* of a tick.
NextInterleaved ==
  \/ NodeAdvances
  \/ \E h \in 1..MaxHeight : FetcherFlags(h)
  \/ RefreshBegin
  \/ RefreshPending
  \/ RefreshTip
  \/ RefreshInfo
  \/ RefreshBaker
  \/ RefreshSet
  \/ RefreshFail

(***************************************************************************)
(* StatusChecker (job/status.rs) over the status repository.  The clock    *)
(* grows from one tick to the next, so every report has its own timestamp. *)
(***************************************************************************)
\* What the job never touches.
notStatus == <<varsFetch, varsReward, varsBlockRepo, varsRefresh, varsSched, varsPrice,
  varsRepair, varsApi>>

\* get_system_stats: each metric is Some when its gathering succeeded.
ResourceStatusJson(cpu_ok, mem_ok, uptime_ok) ==
  [avg_cpu_load |-> IF cpu_ok THEN Some(15) ELSE None,
   mem_free |-> IF mem_ok THEN Some(512) ELSE None,
   mem_total |-> IF mem_ok THEN Some(2048) ELSE None,
   uptime_secs |-> IF uptime_ok THEN Some(3600) ELSE None]

\* What gathering the CPU load, the memory and the uptime may come to:
\* all three gathered, the CPU load missing, nothing gathered.
HostOutcomes == {<<TRUE, TRUE, TRUE>>, <<FALSE, TRUE, TRUE>>, <<FALSE, FALSE, FALSE>>}

\* client/node.rs: what the node answers to get_node_info, get_node_uptime
\* and get_node_stats.
NodeInfo ==
  [node_id |-> None, baker_id |-> Some(7), is_baker_committee |-> TRUE,
   is_finalizer_committee |-> FALSE, peer_type |-> "Node"]

NodeUptime == 250

NodeStats == [avg_latency |-> 125, avg_bps_in |-> 0, avg_bps_out |-> 0, peer_count |-> 6]

\* get_node_status, lines 86-95.
NodeStatusJson(node_info, uptime, node_stats) ==
  [node_id |-> node_info.node_id,
   baker_id |-> node_info.baker_id,
   is_baker_committee |-> node_info.is_baker_committee,
   is_finalizer_committee |-> node_info.is_finalizer_committee,
   uptime_ms |-> uptime,
   peer_type |-> node_info.peer_type,
   peer_average_latency |-> node_stats.avg_latency,
   peer_count |-> node_stats.peer_count]

\* repository/status.rs NewStatus.
NewStatus(resources, node, timestamp_ms) ==
  [resources |-> resources, node |-> node, timestamp_ms |-> timestamp_ms]

\* report: a plain insert; the id is the next of the table.
Report(rows, new_status) ==
  Append(rows, [id |-> IF rows = <<>> THEN 1 ELSE rows[Len(rows)].id + 1,
                resources |-> new_status.resources,
                node |-> new_status.node,
                timestamp_ms |-> new_status.timestamp_ms])

\* A garbage_collect whose subquery has one row too many.
StatusGarbageCollectOneMore(rows, after_nth) ==
  SelectSeq(rows, LAMBDA r :
    Cardinality({i \in DOMAIN rows : rows[i].timestamp_ms > r.timestamp_ms})
      <= after_nth)

\* garbage_collect: delete the rows that are not among the after_nth rows of
\* greatest timestamp_ms.
StatusGarbageCollect(rows, after_nth) ==
  SelectSeq(rows, LAMBDA r :
    Cardinality({i \in DOMAIN rows : rows[i].timestamp_ms > r.timestamp_ms})
      < after_nth)

\* The scheduler calls execute().
StatusBegin ==
  /\ spc = "idle"
  /\ stClock < MaxTicks
  /\ stClock' = stClock + 1
  /\ spc' = "system"
  /\ stResources' = None
  /\ stNode' = None
  /\ stNodeErr' = "none"
  /\ UNCHANGED <<stReports, stStatus, stFailures, stFailedAt>>
  /\ UNCHANGED notStatus

\* line 103 and get_system_stats: a metric whose gathering fails is None,
\* and the call itself never fails.
StatusSystem ==
  /\ spc = "system"
  /\ \E ok \in HostOutcomes :
       stResources' = Some(ResourceStatusJson(ok[1], ok[2], ok[3]))
  /\ spc' = "info"
  /\ UNCHANGED <<stReports, stClock, stStatus, stNode, stFailures, stNodeErr,
                 stFailedAt>>
  /\ UNCHANGED notStatus

\* get_node_status, line 80: client.get_node_info(); an error is returned
\* by `?` to execute, whose match makes None of it (lines 104-107).
StatusNodeInfo ==
  /\ spc = "info"
  /\ \/ /\ stNode' = <<NodeInfo>>
        /\ spc' = "uptime"
        /\ UNCHANGED stNodeErr
     \/ /\ stNode' = None
        /\ stNodeErr' = "info"
        /\ spc' = "report"
  /\ UNCHANGED <<stReports, stClock, stStatus, stResources, stFailures, stFailedAt>>
  /\ UNCHANGED notStatus

\* A get_node_status whose error ends the tick: `?` in execute in place of
\* the match.
StatusNodeUptimePropagates ==
  /\ spc = "uptime"
  /\ \/ /\ stNode' = Append(stNode, NodeUptime)
        /\ spc' = "stats"
        /\ UNCHANGED <<stNodeErr, stStatus, stFailedAt>>
     \/ /\ stNode' = None
        /\ stNodeErr' = "uptime"
        /\ spc' = "idle"
        /\ stStatus' = "err"
        /\ stFailedAt' = "uptime"
  /\ UNCHANGED <<stReports, stClock, stResources, stFailures>>
  /\ UNCHANGED notStatus

\* get_node_status, line 82: client.get_node_uptime().
StatusNodeUptime ==
  /\ spc = "uptime"
  /\ \/ /\ stNode' = Append(stNode, NodeUptime)
        /\ spc' = "stats"
        /\ UNCHANGED stNodeErr
     \/ /\ stNode' = None
        /\ stNodeErr' = "uptime"
        /\ spc' = "report"
  /\ UNCHANGED <<stReports, stClock, stStatus, stResources, stFailures, stFailedAt>>
  /\ UNCHANGED notStatus

\* get_node_status, lines 84-95: client.get_node_stats() and the JSON of the
\* three answers.
StatusNodeStats ==
  /\ spc = "stats"
  /\ \/ /\ stNode' = Some(NodeStatusJson(stNode[1], stNode[2], NodeStats))
        /\ UNCHANGED stNodeErr
     \/ /\ stNode' = None
        /\ stNodeErr' = "stats"
  /\ spc' = "report"
  /\ UNCHANGED <<stReports, stClock, stStatus, stResources, stFailures, stFailedAt>>
  /\ UNCHANGED notStatus

\* lines 102-111: the NewStatus and repository.report(new_status).
StatusReport ==
  /\ spc = "report"
  /\ stReports' = Report(stReports, NewStatus(stResources[1], stNode, stClock))
  /\ spc' = "gc"
  /\ UNCHANGED <<stClock, stStatus, stResources, stNode, stFailures, stNodeErr,
                 stFailedAt>>
  /\ UNCHANGED notStatus

\* lines 115-117: repository.garbage_collect(MAX_NUM_REPORT), then Ok(()).
StatusGc ==
  /\ spc = "gc"
  /\ stReports' = StatusGarbageCollect(stReports, MAX_NUM_REPORT)
  /\ spc' = "idle"
  /\ stStatus' = "ok"
  /\ UNCHANGED <<stClock, stResources, stNode, stFailures, stNodeErr, stFailedAt>>
  /\ UNCHANGED notStatus

\* The repository call the tick is about to make returns an error, which
\* `?` returns from execute(): the call has no effect and the tick is over.
StatusFail ==
  /\ spc \in {"report", "gc"}
  /\ stFailures < MaxFailures
  /\ stFailures' = stFailures + 1
  /\ spc' = "idle"
  /\ stStatus' = "err"
  /\ stFailedAt' = spc
  /\ UNCHANGED <<stReports, stClock, stResources, stNode, stNodeErr>>
  /\ UNCHANGED notStatus

NextStatus ==
  \/ StatusBegin
  \/ StatusSystem
  \/ StatusNodeInfo
  \/ StatusNodeUptime
  \/ StatusNodeStats
  \/ StatusReport
  \/ StatusGc
  \/ StatusFail

(***************************************************************************)
(* Prices: the price repository (repository/price.rs) called directly, and *)
(* PriceRefresher (job/price.rs) over it.                                  *)
(***************************************************************************)
\* What the price repository and the price job never touch.
notPrice == <<varsFetch, varsReward, varsBlockRepo, varsRefresh, varsStatus, varsSched,
  varsRepair, varsApi>>

\* PriceRefresher.pairs after follow_pair of each pair: the followed pairs.
Followed == [i \in 1..NumPairs |-> i]

\* The pairs the repository is asked about: the followed ones and one more.
PairArgs == 1..(NumPairs + 1)

\* Bid and ask of a ticker, as the price client reads them.
Tickers == {<<10, 12>>, <<20, 24>>}

\* model.rs From<(i32, f64, f64)> for Price.
PriceOf(pair_id, bid, ask) ==
  [pair_id |-> pair_id, bid |-> bid, ask |-> ask, daily_change_relative |-> 0,
   high |-> ask, low |-> bid]

\* The prices set_price is called with.
PriceArgs == {PriceOf(p, t[1], t[2]) : p \in PairArgs, t \in Tickers}

\* get_price: the first row of the pair, or NotFound (None).
GetPrice(rows, pair) ==
  LET found == SelectSeq(rows, LAMBDA r : r.pair_id = pair)
  IN  IF found = <<>> THEN None ELSE Some(found[1])

\* A set_price that inserts and leaves the row of the pair in place.
SetPriceInsert(rows, price) == Append(rows, price)

\* set_price: REPLACE INTO prices, whose primary key is pair_id (schema.rs):
\* the row of the pair, if any, is deleted and the new one inserted.
SetPrice(rows, price) ==
  Append(SelectSeq(rows, LAMBDA r : r.pair_id # price.pair_id), price)

\* A direct set_price, which succeeds or fails as a whole.
RepoSetPrice(price) ==
  /\ prLast.calls < MaxCalls
  /\ \E ok \in BOOLEAN :
       /\ prices' = IF ok THEN SetPrice(prices, price) ELSE prices
       /\ prLatest' = IF ok THEN [prLatest EXCEPT ![price.pair_id] = Some(price)]
                            ELSE prLatest
       /\ prLast' = [op |-> "set_price", arg |-> Some(price), ok |-> ok,
                     result |-> None, calls |-> prLast.calls + 1]
  /\ UNCHANGED <<xpc, xTodo, xStatus, xTicks, xFailures, xCalls, xReturned, xBefore>>
  /\ UNCHANGED notPrice

\* A direct get_price.
RepoGetPrice(pair) ==
  /\ prLast.calls < MaxCalls
  /\ prLast' = [op |-> "get_price", arg |-> Some(pair), ok |-> TRUE,
                result |-> GetPrice(prices, pair), calls |-> prLast.calls + 1]
  /\ UNCHANGED <<prices, prLatest>>
  /\ UNCHANGED <<xpc, xTodo, xStatus, xTicks, xFailures, xCalls, xReturned, xBefore>>
  /\ UNCHANGED notPrice

NextPriceRepo ==
  \/ \E price \in PriceArgs : RepoSetPrice(price)
  \/ \E pair \in PairArgs : RepoGetPrice(pair)

\* What the price client may answer to get_prices(pairs): the tickers of the
\* first pairs, zipped with them (client/bitfinex.rs lines 81-85).
RECURSIVE TickerLists(_)
TickerLists(n) ==
  IF n = 0 THEN {<<>>}
  ELSE LET shorter == TickerLists(n - 1)
       IN  shorter \cup {Append(l, t) : l \in {s \in shorter : Len(s) = n - 1},
                                       t \in Tickers}

PricesOf(pairs, tickers) ==
  [i \in 1..Len(tickers) |-> PriceOf(pairs[i], tickers[i][1], tickers[i][2])]

\* The scheduler calls execute().
PriceBegin ==
  /\ xpc = "idle"
  /\ xTicks < MaxCalls
  /\ xTicks' = xTicks + 1
  /\ xpc' = "get"
  /\ xTodo' = <<>>
  /\ xCalls' = <<>>
  /\ xReturned' = <<>>
  /\ xBefore' = prices
  /\ UNCHANGED <<prices, prLast, prLatest, xStatus, xFailures>>
  /\ UNCHANGED notPrice

\* line 38: client.get_prices(&self.pairs), which answers.
PriceGetPrices ==
  /\ xpc = "get"
  /\ \E tickers \in TickerLists(Len(Followed)) :
       /\ xTodo' = PricesOf(Followed, tickers)
       /\ xReturned' = PricesOf(Followed, tickers)
  /\ xCalls' = Append(xCalls, [op |-> "get_prices", arg |-> Followed, ok |-> TRUE])
  /\ xpc' = "set"
  /\ UNCHANGED <<prices, prLast, prLatest, xStatus, xTicks, xFailures, xBefore>>
  /\ UNCHANGED notPrice

\* line 38: get_prices fails and `?` returns the error from execute().
PriceGetPricesFail ==
  /\ xpc = "get"
  /\ xFailures < MaxFailures
  /\ xFailures' = xFailures + 1
  /\ xCalls' = Append(xCalls, [op |-> "get_prices", arg |-> Followed, ok |-> FALSE])
  /\ xpc' = "idle"
  /\ xStatus' = "err"
  /\ UNCHANGED <<prices, prLast, prLatest, xTodo, xTicks, xReturned, xBefore>>
  /\ UNCHANGED notPrice

\* A loop that goes on to the next price when a set_price fails.
PriceSetSkipsFailure ==
  /\ xpc = "set"
  /\ xTodo # <<>>
  /\ \E ok \in BOOLEAN :
       /\ ~ok => xFailures < MaxFailures
       /\ xFailures' = IF ok THEN xFailures ELSE xFailures + 1
       /\ prices' = IF ok THEN SetPrice(prices, Head(xTodo)) ELSE prices
       /\ prLatest' = IF ok THEN [prLatest EXCEPT ![Head(xTodo).pair_id] = Some(Head(xTodo))]
                            ELSE prLatest
       /\ xCalls' = Append(xCalls, [op |-> "set_price", arg |-> Head(xTodo), ok |-> ok])
  /\ xTodo' = Tail(xTodo)
  /\ UNCHANGED <<prLast, xpc, xStatus, xTicks, xReturned, xBefore>>
  /\ UNCHANGED notPrice

\* lines 40-42: repository.set_price(&price) of the next price; an error is
\* returned from execute() by `?` and the prices left are dropped.
PriceSet ==
  /\ xpc = "set"
  /\ xTodo # <<>>
  /\ \/ /\ prices' = SetPrice(prices, Head(xTodo))
        /\ prLatest' = [prLatest EXCEPT ![Head(xTodo).pair_id] = Some(Head(xTodo))]
        /\ xCalls' = Append(xCalls, [op |-> "set_price", arg |-> Head(xTodo), ok |-> TRUE])
        /\ xTodo' = Tail(xTodo)
        /\ UNCHANGED <<xpc, xStatus, xFailures>>
     \/ /\ xFailures < MaxFailures
        /\ xFailures' = xFailures + 1
        /\ xCalls' = Append(xCalls, [op |-> "set_price", arg |-> Head(xTodo), ok |-> FALSE])
        /\ xpc' = "idle"
        /\ xStatus' = "err"
        /\ UNCHANGED <<prices, prLatest, xTodo>>
  /\ UNCHANGED <<prLast, xTicks, xReturned, xBefore>>
  /\ UNCHANGED notPrice

\* line 44: the loop is over, Ok(()).
PriceDone ==
  /\ xpc = "set"
  /\ xTodo = <<>>
  /\ xpc' = "idle"
  /\ xStatus' = "ok"
  /\ UNCHANGED <<prices, prLast, prLatest, xTodo, xTicks, xFailures, xCalls,
                 xReturned, xBefore>>
  /\ UNCHANGED notPrice

NextPrice ==
  \/ PriceBegin
  \/ PriceGetPrices
  \/ PriceGetPricesFail
  \/ PriceSet
  \/ PriceDone

(***************************************************************************)
(* RewardRepairer (job/block.rs) over the reward table.  The rows it finds *)
(* are those insert_rewards left when BlockFetcher called it: both rows of *)
(* a block and account, or the Baker row alone when the second set_reward  *)
(* failed.  The node may report other amounts when it is asked again.      *)
(***************************************************************************)
\* What the repairer never touches.
notRepair == <<varsFetch, varsReward, varsBlockRepo, varsRefresh, varsStatus, varsSched,
               varsPrice, varsApi>>

\* What get_block_summary may answer for the block at height h when the
\* repairer asks again: the events at revision 0, which BlockFetcher saw,
\* and at revision 1 every amount an event carries raised by ten.
Revisions == {0, 1}

EventsNow(h, rev) ==
  [i \in DOMAIN EventsAt(h) |->
     LET event == EventsAt(h)[i] IN
       Event(event.tag, event.account,
             IF event.baker_reward = None THEN None
             ELSE Some(event.baker_reward[1] + 10 * rev),
             IF event.transaction_fees = None THEN None
             ELSE Some(event.transaction_fees[1] + 10 * rev))]

\* The blocks BlockFetcher has reached: one that rewards account 1, one
\* that rewards account 2 and one that rewards both, account 1 twice.
RewardedHeights == {1, 2, 4}

\* get_rewards: the rows that belong to the account.
GetRewards(rows, account) == SelectSeq(rows, LAMBDA r : r.account_id = account.id)

\* BlockFetcher::do_rewards calls insert_rewards for a stored account the
\* block rewards (lines 88-99), block after block in the order of the
\* heights and account after account, the same block and account again
\* when a tick is retried; insert_rewards, lines 210-218: the Baker row.
InsertRewardsBaker(a, h) ==
  /\ qpc = "idle"
  /\ ipc = "idle"
  /\ iLast[1] < h \/ (iLast[1] = h /\ iLast[2] <= a)
  /\ a \in DOMAIN RewardsOf(EventsAt(h))
  /\ iLast' = <<h, a>>
  /\ LET values == RewardsOf(EventsAt(h))[a]
         block_info == BlockInfoOf(HashOf(h))
     IN  /\ rpRewards' = SetReward(rpRewards,
                           NewReward(AccountRow(a).id, block_info.block_hash,
                                     values[1], block_info.block_slot_time, KindBaker))
         /\ iArgs' = Some(NewReward(AccountRow(a).id, block_info.block_hash,
                                    values[2], block_info.block_slot_time,
                                    KindTransactionFee))
  /\ ipc' = "fee"
  \* the observations of the last repairer tick end with the table changing
  /\ qSummaries' = <<>>
  /\ qInserts' = <<>>
  /\ qBefore' = <<>>
  /\ qStatus' = "none"
  /\ UNCHANGED <<qRev, iFailures, qpc, qAccounts, qRewards, qEvents>>
  /\ UNCHANGED notRepair

\* insert_rewards, lines 220-228: the TransactionFee row.
InsertRewardsFee ==
  /\ ipc = "fee"
  /\ rpRewards' = SetReward(rpRewards, iArgs[1])
  /\ ipc' = "idle"
  /\ iArgs' = None
  /\ UNCHANGED <<qRev, iLast, iFailures, qpc, qAccounts, qRewards, qEvents, qStatus, qSummaries, qInserts, qBefore>>
  /\ UNCHANGED notRepair

\* insert_rewards, line 228: the second set_reward fails (or the process
\* stops before it) and `?` returns the error.
InsertRewardsFeeFails ==
  /\ ipc = "fee"
  /\ iFailures < MaxFailures
  /\ iFailures' = iFailures + 1
  /\ ipc' = "idle"
  /\ iArgs' = None
  /\ UNCHANGED <<rpRewards, qRev, iLast, qpc, qAccounts, qRewards, qEvents,
                 qStatus, qSummaries, qInserts, qBefore>>
  /\ UNCHANGED notRepair

\* The scheduler calls RewardRepairer::execute().
RepairBegin ==
  /\ qpc = "idle"
  /\ ipc = "idle"
  /\ rpRewards # <<>>
  /\ qpc' = "accounts"
  /\ qAccounts' = <<>>
  /\ qRewards' = <<>>
  /\ qEvents' = <<>>
  /\ qSummaries' = <<>>
  /\ qInserts' = <<>>
  /\ qBefore' = rpRewards
  /\ qRev' \in Revisions
  /\ qStatus' = "none"
  /\ UNCHANGED <<rpRewards, ipc, iArgs, iLast, iFailures>>
  /\ UNCHANGED notRepair

\* line 159: get_accounts(AccountFilter::default()).
RepairAccounts ==
  /\ qpc = "accounts"
  /\ qAccounts' = GetAccounts(InitAccounts, None)
  /\ qpc' = "rewards"
  /\ UNCHANGED <<rpRewards, qRev, ipc, iArgs, iLast, iFailures, qRewards, qEvents, qStatus, qSummaries, qInserts, qBefore>>
  /\ UNCHANGED notRepair

\* lines 161-162: get_rewards(&account) of the next account.
RepairRewards ==
  /\ qpc = "rewards"
  /\ qAccounts # <<>>
  /\ qRewards' = GetRewards(rpRewards, Head(qAccounts))
  /\ qpc' = "row"
  /\ UNCHANGED <<rpRewards, qRev, ipc, iArgs, iLast, iFailures, qAccounts, qEvents, qStatus, qSummaries, qInserts, qBefore>>
  /\ UNCHANGED notRepair

\* The rows left once the loop has passed over the TransactionFee rows at
\* their head (lines 165-168, the `continue`).
RECURSIVE SkipFees(_)
SkipFees(rows) ==
  IF rows = <<>> THEN rows
  ELSE IF Head(rows).kind = KindTransactionFee THEN SkipFees(Tail(rows))
  ELSE rows

\* The event names the account the loop is at (lines 173-178).
EventMatches(event, account) ==
  /\ event.tag = EVENT_TAG_REWARD
  /\ event.account # None
  /\ event.account[1] = account.address

\* The events left once the loop has passed over those at their head that
\* do not match the account.
RECURSIVE SkipOthers(_, _)
SkipOthers(events, account) ==
  IF events = <<>> THEN events
  ELSE IF EventMatches(Head(events), account) THEN events
  ELSE SkipOthers(Tail(events), account)

\* A loop over the rewards without the `continue` of lines 165-168.
RepairRowEveryKind ==
  /\ qpc = "row"
  /\ IF qRewards = <<>>
     THEN /\ qAccounts' = Tail(qAccounts)
          /\ qpc' = "rewards"
          /\ UNCHANGED <<qRewards, qEvents, qSummaries>>
     ELSE LET events == SkipOthers(EventsNow(HeightOfHash(Head(qRewards).block_hash), qRev),
                                   Head(qAccounts))
          IN  /\ qSummaries' = Append(qSummaries, <<Head(qRewards).account_id,
                                                    Head(qRewards).block_hash>>)
              /\ qEvents' = events
              /\ qRewards' = IF events = <<>> THEN Tail(qRewards) ELSE qRewards
              /\ qpc' = IF events = <<>> THEN "row" ELSE "event"
              /\ UNCHANGED qAccounts
  /\ UNCHANGED <<rpRewards, qRev, ipc, iArgs, iLast, iFailures, qStatus, qInserts, qBefore>>
  /\ UNCHANGED notRepair

\* lines 164-178: the loop passes over the TransactionFee rows and fetches
\* the summary of the block of the next Baker row, whose events it goes
\* through up to the first that matches the account; after the last row
\* the loop of the accounts goes on.
RepairRow ==
  /\ qpc = "row"
  /\ LET rows == SkipFees(qRewards) IN
       IF rows = <<>>
       THEN /\ qAccounts' = Tail(qAccounts)
            /\ qpc' = "rewards"
            /\ qRewards' = <<>>
            /\ UNCHANGED <<qEvents, qSummaries>>
       ELSE LET events == SkipOthers(EventsNow(HeightOfHash(Head(rows).block_hash), qRev),
                                     Head(qAccounts))
            IN  /\ qSummaries' = Append(qSummaries, <<Head(rows).account_id,
                                                      Head(rows).block_hash>>)
                /\ qEvents' = events
                /\ qRewards' = IF events = <<>> THEN Tail(rows) ELSE rows
                /\ qpc' = IF events = <<>> THEN "row" ELSE "event"
                /\ UNCHANGED qAccounts
  /\ UNCHANGED <<rpRewards, qRev, ipc, iArgs, iLast, iFailures, qStatus, qInserts, qBefore>>
  /\ UNCHANGED notRepair

\* lines 179-191 and insert_rewards, lines 210-218: insert_rewards is
\* called for the matching event with the hash and the epoch of the reward
\* row, and makes its first set_reward.
RepairEvent ==
  /\ qpc = "event"
  /\ LET event == Head(qEvents)
         account == Head(qAccounts)
         reward == Head(qRewards)
         values == <<UnwrapOr(event.baker_reward, 0),
                     UnwrapOr(event.transaction_fees, 0)>>
     IN  /\ rpRewards' = SetReward(rpRewards,
                           NewReward(account.id, reward.block_hash, values[1],
                                     reward.epoch_ms, KindBaker))
         /\ qInserts' = Append(qInserts,
                           [account_id |-> account.id, hash |-> reward.block_hash,
                            epoch_ms |-> reward.epoch_ms, values |-> values])
  /\ qpc' = "fee"
  /\ UNCHANGED <<qRev, ipc, iArgs, iLast, iFailures, qAccounts, qRewards, qEvents, qStatus,
                 qSummaries, qBefore>>
  /\ UNCHANGED notRepair

\* insert_rewards, lines 220-228: the TransactionFee row of the call; the
\* loop then goes to the next event that matches, or to the next row.
RepairFee ==
  /\ qpc = "fee"
  /\ LET last == qInserts[Len(qInserts)] IN
       rpRewards' = SetReward(rpRewards,
                      NewReward(last.account_id, last.hash, last.values[2],
                                last.epoch_ms, KindTransactionFee))
  /\ LET events == SkipOthers(Tail(qEvents), Head(qAccounts)) IN
       /\ qEvents' = events
       /\ qRewards' = IF events = <<>> THEN Tail(qRewards) ELSE qRewards
       /\ qpc' = IF events = <<>> THEN "row" ELSE "event"
  /\ UNCHANGED <<qRev, ipc, iArgs, iLast, iFailures, qAccounts, qStatus, qSummaries, qInserts,
                 qBefore>>
  /\ UNCHANGED notRepair

\* line 198: the loop of the accounts is over, Ok(()).
RepairDone ==
  /\ qpc = "rewards"
  /\ qAccounts = <<>>
  /\ qpc' = "idle"
  /\ qStatus' = "ok"
  /\ UNCHANGED <<rpRewards, qRev, ipc, iArgs, iLast, iFailures, qAccounts, qRewards, qEvents,
                 qSummaries, qInserts, qBefore>>
  /\ UNCHANGED notRepair

\* The tick is about to call the repository or the node.
RepairCalls ==
  \/ qpc = "accounts"
  \/ qpc = "rewards" /\ qAccounts # <<>>
  \/ qpc = "row" /\ SkipFees(qRewards) # <<>>
  \/ qpc = "event"
  \/ qpc = "fee"

\* The call fails and `?` returns the error from execute().
RepairFail ==
  /\ RepairCalls
  /\ qpc' = "idle"
  /\ qStatus' = "err"
  /\ qAccounts' = <<>>
  /\ qRewards' = <<>>
  /\ qEvents' = <<>>
  /\ qSummaries' = <<>>
  /\ qInserts' = <<>>
  /\ qBefore' = <<>>
  /\ UNCHANGED <<rpRewards, qRev, ipc, iArgs, iLast, iFailures>>
  /\ UNCHANGED notRepair

NextRepair ==
  \/ \E a \in 1..NumAccounts : \E h \in RewardedHeights : InsertRewardsBaker(a, h)
  \/ InsertRewardsFee
  \/ InsertRewardsFeeFails
  \/ RepairBegin
  \/ RepairAccounts
  \/ RepairRewards
  \/ RepairRow
  \/ RepairEvent
  \/ RepairFee
  \/ RepairDone
  \/ RepairFail

(***************************************************************************)
(* Scheduler and Jobber (job/mod.rs).                                      *)
(*                                                                         *)
(* A schedule is "cron" when it has an upcoming instant (the timer of a    *)
(* sleep becomes due at some later moment, or not within the run) and      *)
(* "exhausted" when it has none: sleep_schedule then returns now, and the  *)
(* timer is due at once.                                                   *)
(***************************************************************************)
JobNames == 1..MaxJobs

Schedules == {"cron", "exhausted"}

\* What the scheduler never touches.
notSched == <<varsFetch, varsReward, varsBlockRepo, varsRefresh, varsStatus, varsPrice,
  varsRepair, varsApi>>

\* register: HashMap::insert, a second registration of a name replaces the first.
Register(name, schedule) ==
  /\ sPhase = "new"
  /\ sJobs' = [n \in DOMAIN sJobs \cup {name} |->
                 IF n = name THEN schedule ELSE sJobs[n]]
  /\ UNCHANGED <<sPhase, jpc, jDue, jSeen, jGen, wVersion, bSize, bArrived, bGen,
                 hpc, hSeen, hGen, hResult, graceExpired>>
  /\ UNCHANGED <<jLast, jMid>>
  /\ UNCHANGED notSched

\* A barrier that forgets the handle: Barrier::new(self.jobs.len()).
BarrierSizeJobsOnly(n) == n

\* start, line 51: Barrier::new(self.jobs.len() + 1).
BarrierSize(n) == n + 1

\* A sleep that always waits for an instant still to come.
DueAtInstantOnly(schedule) == FALSE

\* sleep_schedule: the timer is due at once when the schedule has no
\* upcoming instant.
DueAtOnce(schedule) == schedule = "exhausted"

\* start: the watch channel, the barrier, one loop per job, the handle task.
Start ==
  /\ sPhase = "new"
  /\ sPhase' = "started"
  /\ wVersion' = 0
  /\ bSize' = BarrierSize(Cardinality(DOMAIN sJobs))
  /\ bArrived' = 0
  /\ bGen' = 0
  /\ jpc' = [j \in DOMAIN sJobs |-> "sleep"]
  /\ jDue' = [j \in DOMAIN sJobs |-> DueAtOnce(sJobs[j])]
  /\ jSeen' = [j \in DOMAIN sJobs |-> 0]
  /\ jGen' = [j \in DOMAIN sJobs |-> 0]
  /\ jLast' = "none"
  /\ jMid' = [j \in DOMAIN sJobs |-> FALSE]
  /\ hpc' = "wait"
  /\ hSeen' = 0
  /\ UNCHANGED <<sJobs, hGen, hResult, graceExpired>>
  /\ UNCHANGED notSched

\* Time passes: the instant a sleeping loop waits for is reached.
JobTimerDue(j) ==
  /\ jpc[j] = "sleep"
  /\ ~jDue[j]
  /\ jDue' = [jDue EXCEPT ![j] = TRUE]
  /\ UNCHANGED <<sJobs, sPhase, jpc, jSeen, jGen, wVersion, bSize, bArrived, bGen,
                 hpc, hSeen, hGen, hResult, graceExpired>>
  /\ UNCHANGED <<jLast, jMid>>
  /\ UNCHANGED notSched

\* select!, line 95: the sleep_until branch; the loop goes on to execute().
JobWakeTimer(j) ==
  /\ jpc[j] = "sleep"
  /\ jDue[j]
  /\ jpc' = [jpc EXCEPT ![j] = "running"]
  /\ jDue' = [jDue EXCEPT ![j] = FALSE]
  /\ UNCHANGED <<sJobs, sPhase, jSeen, jGen, wVersion, bSize, bArrived, bGen,
                 hpc, hSeen, hGen, hResult, graceExpired>>
  /\ UNCHANGED <<jLast, jMid>>
  /\ UNCHANGED notSched

\* select!, lines 96-102: the closed.changed() branch, ready when the channel
\* holds a version the receiver has not seen; the loop arrives at the barrier,
\* which lets it through when it is the last to arrive.
JobWakeClosed(j) ==
  /\ jpc[j] = "sleep"
  /\ jSeen[j] # wVersion
  /\ jSeen' = [jSeen EXCEPT ![j] = wVersion]
  /\ jDue' = [jDue EXCEPT ![j] = FALSE]
  /\ IF bArrived + 1 = bSize
     THEN /\ bArrived' = 0
          /\ bGen' = bGen + 1
          /\ jpc' = [jpc EXCEPT ![j] = "done"]
          /\ UNCHANGED jGen
     ELSE /\ bArrived' = bArrived + 1
          /\ jGen' = [jGen EXCEPT ![j] = bGen]
          /\ jpc' = [jpc EXCEPT ![j] = "barrier"]
          /\ UNCHANGED bGen
  /\ UNCHANGED <<sJobs, sPhase, wVersion, bSize, hpc, hSeen, hGen, hResult,
                 graceExpired>>
  /\ jMid' = [jMid EXCEPT ![j] = FALSE]
  /\ UNCHANGED jLast
  /\ UNCHANGED notSched

\* A loop that goes back to its sleep once the barrier was released.
JobReleasedRestarts(j) ==
  /\ jpc[j] = "barrier"
  /\ bGen > jGen[j]
  /\ jpc' = [jpc EXCEPT ![j] = "sleep"]
  /\ UNCHANGED <<sJobs, sPhase, jDue, jSeen, jGen, wVersion, bSize, bArrived, bGen,
                 hpc, hSeen, hGen, hResult, graceExpired>>
  /\ UNCHANGED <<jLast, jMid>>
  /\ UNCHANGED notSched

\* line 100-101: barrier.wait() returns once the barrier was released.
JobReleased(j) ==
  /\ jpc[j] = "barrier"
  /\ bGen > jGen[j]
  /\ jpc' = [jpc EXCEPT ![j] = "done"]
  /\ UNCHANGED <<sJobs, sPhase, jDue, jSeen, jGen, wVersion, bSize, bArrived, bGen,
                 hpc, hSeen, hGen, hResult, graceExpired>>
  /\ UNCHANGED <<jLast, jMid>>
  /\ UNCHANGED notSched

\* A loop that returns from its task when execute() returns an error.
JobExecuteReturnsStopsOnError(j) ==
  /\ jpc[j] = "running"
  /\ \E result \in {"ok", "err"} :
       /\ jLast' = result
       /\ jpc' = [jpc EXCEPT ![j] = IF result = "err" THEN "done" ELSE "sleep"]
  /\ jDue' = [jDue EXCEPT ![j] = DueAtOnce(sJobs[j])]
  /\ UNCHANGED <<sJobs, sPhase, jSeen, jGen, wVersion, bSize, bArrived, bGen,
                 hpc, hSeen, hGen, hResult, graceExpired, jMid>>
  /\ UNCHANGED notSched

\* A loop whose timer kept the instants that passed during execute(): back
\* in its select! the timer is due already.
JobExecuteReturnsOverdue(j) ==
  /\ jpc[j] = "running"
  /\ \E result \in {"ok", "err"} : jLast' = result
  /\ jpc' = [jpc EXCEPT ![j] = "sleep"]
  /\ jDue' = [jDue EXCEPT ![j] = TRUE]
  /\ UNCHANGED <<sJobs, sPhase, jSeen, jGen, wVersion, bSize, bArrived, bGen,
                 hpc, hSeen, hGen, hResult, graceExpired, jMid>>
  /\ UNCHANGED notSched

\* lines 107-110: execute() returns Ok or Err, the match logs either, and
\* the loop computes the next sleep (line 92).
JobExecuteReturns(j) ==
  /\ jpc[j] = "running"
  /\ \E result \in {"ok", "err"} : jLast' = result
  /\ jpc' = [jpc EXCEPT ![j] = "sleep"]
  /\ jDue' = [jDue EXCEPT ![j] = DueAtOnce(sJobs[j])]
  /\ UNCHANGED <<sJobs, sPhase, jSeen, jGen, wVersion, bSize, bArrived, bGen,
                 hpc, hSeen, hGen, hResult, graceExpired, jMid>>
  /\ UNCHANGED notSched

\* Jobber::shutdown, line 140: closer.send(true); then it awaits the handle.
Shutdown ==
  /\ sPhase = "started"
  /\ sPhase' = "sent"
  /\ wVersion' = wVersion + 1
  /\ jMid' = [j \in DOMAIN jpc |-> jpc[j] = "running"]
  /\ UNCHANGED <<sJobs, jpc, jDue, jSeen, jGen, bSize, bArrived, bGen,
                 hpc, hSeen, hGen, hResult, graceExpired, jLast>>
  /\ UNCHANGED notSched

\* handle task, lines 67-72: closing.changed() returns and the timeout of
\* SCHEDULER_TIMEOUT is armed.
HandleChanged ==
  /\ hpc = "wait"
  /\ hSeen # wVersion
  /\ hSeen' = wVersion
  /\ hpc' = "select"
  /\ UNCHANGED <<sJobs, sPhase, jpc, jDue, jSeen, jGen, wVersion, bSize, bArrived,
                 bGen, hGen, hResult, graceExpired>>
  /\ UNCHANGED <<jLast, jMid>>
  /\ UNCHANGED notSched

\* Time passes: SCHEDULER_TIMEOUT has elapsed since the handle armed it.
GraceExpires ==
  /\ hpc \in {"select", "barrier"}
  /\ ~graceExpired
  /\ graceExpired' = TRUE
  /\ UNCHANGED <<sJobs, sPhase, jpc, jDue, jSeen, jGen, wVersion, bSize, bArrived,
                 bGen, hpc, hSeen, hGen, hResult>>
  /\ UNCHANGED <<jLast, jMid>>
  /\ UNCHANGED notSched

\* select!, line 77, first poll of barrier.wait(): the handle arrives at the
\* barrier, which lets it through when it is the last to arrive.
HandleArrives ==
  /\ hpc = "select"
  /\ IF bArrived + 1 = bSize
     THEN /\ bArrived' = 0
          /\ bGen' = bGen + 1
          /\ hpc' = "done"
          /\ hResult' = "graceful"
          /\ UNCHANGED hGen
     ELSE /\ bArrived' = bArrived + 1
          /\ hGen' = bGen
          /\ hpc' = "barrier"
          /\ UNCHANGED <<bGen, hResult>>
  /\ UNCHANGED <<sJobs, sPhase, jpc, jDue, jSeen, jGen, wVersion, bSize, hSeen,
                 graceExpired>>
  /\ UNCHANGED <<jLast, jMid>>
  /\ UNCHANGED notSched

\* select!, line 77: barrier.wait() returns once the barrier was released.
HandleReleased ==
  /\ hpc = "barrier"
  /\ bGen > hGen
  /\ hpc' = "done"
  /\ hResult' = "graceful"
  /\ UNCHANGED <<sJobs, sPhase, jpc, jDue, jSeen, jGen, wVersion, bSize, bArrived,
                 bGen, hSeen, hGen, graceExpired>>
  /\ UNCHANGED <<jLast, jMid>>
  /\ UNCHANGED notSched

\* A handle that awaits the barrier and only then the timeout.
HandleTimeoutAfterBarrier ==
  /\ hpc = "barrier"
  /\ bGen > hGen
  /\ graceExpired
  /\ hpc' = "done"
  /\ hResult' = "timeout"
  /\ UNCHANGED <<sJobs, sPhase, jpc, jDue, jSeen, jGen, wVersion, bSize, bArrived,
                 bGen, hSeen, hGen, graceExpired>>
  /\ UNCHANGED <<jLast, jMid>>
  /\ UNCHANGED notSched

\* select!, line 78: the timeout branch.
HandleTimeout ==
  /\ hpc \in {"select", "barrier"}
  /\ graceExpired
  /\ hpc' = "done"
  /\ hResult' = "timeout"
  /\ UNCHANGED <<sJobs, sPhase, jpc, jDue, jSeen, jGen, wVersion, bSize, bArrived,
                 bGen, hSeen, hGen, graceExpired>>
  /\ UNCHANGED <<jLast, jMid>>
  /\ UNCHANGED notSched

\* Jobber::shutdown, lines 142-145: the handle has finished; shutdown returns.
ShutdownReturn ==
  /\ sPhase = "sent"
  /\ hpc = "done"
  /\ sPhase' = "returned"
  /\ UNCHANGED <<sJobs, jpc, jDue, jSeen, jGen, wVersion, bSize, bArrived, bGen,
                 hpc, hSeen, hGen, hResult, graceExpired>>
  /\ UNCHANGED <<jLast, jMid>>
  /\ UNCHANGED notSched

NextSched ==
  \/ \E name \in JobNames, schedule \in Schedules : Register(name, schedule)
  \/ Start
  \/ \E j \in DOMAIN jpc : JobTimerDue(j)
  \/ \E j \in DOMAIN jpc : JobWakeTimer(j)
  \/ \E j \in DOMAIN jpc : JobWakeClosed(j)
  \/ \E j \in DOMAIN jpc : JobReleased(j)
  \/ \E j \in DOMAIN jpc : JobExecuteReturns(j)
  \/ Shutdown
  \/ HandleChanged
  \/ GraceExpires
  \/ HandleArrives
  \/ HandleReleased
  \/ HandleTimeout
  \/ ShutdownReturn

(***************************************************************************)
(* UserRepository (repository/user.rs): users and their sessions.          *)
(*                                                                         *)
(* A session id (the refresh token) is the n-th value of Uuid::new_v4,     *)
(* written n.  create_session names user_id as its conflict target, which  *)
(* SQLite accepts only for a column with a unique index: user_sessions     *)
(* holds at most one row per user_id and a statement that would leave two  *)
(* fails.                                                                  *)
(***************************************************************************)
\* What the user repository and the controllers never touch.
notApi == <<varsFetch, varsReward, varsBlockRepo, varsRefresh, varsStatus, varsSched,
            varsPrice, varsRepair>>

UserIds == 1..NumUsers

\* The ids a caller may present: those produced so far and one more.
SessionIds == 1..(MaxCalls + 1)

\* current_time_ms of a call.
Nows == 0..(2 * SESSION_DURATION_MILLIS)

NoCall == [op |-> "none", n |-> 0, args |-> <<>>, result |-> "none", value |-> None,
           calls |-> <<>>]

\* models::Session
Session(id, user_id, expiration_ms, last_use_ms) ==
  [id |-> id, user_id |-> user_id, expiration_ms |-> expiration_ms,
   last_use_ms |-> last_use_ms]

\* The unique index of user_sessions.user_id.
UniqueUserId(rows) ==
  \A i \in DOMAIN rows : \A j \in DOMAIN rows :
    (rows[i].user_id = rows[j].user_id) => (i = j)

\* A create_session that inserts a row whatever the table holds.
CreateSessionInsert(rows, new_session) == Append(rows, new_session)

\* create_session, lines 124-135: insert the row; on a conflict of user_id
\* set id, expiration_ms and last_use_ms of the user's row.
CreateSession(rows, new_session) ==
  IF \E i \in DOMAIN rows : rows[i].user_id = new_session.user_id
  THEN [i \in DOMAIN rows |->
          IF rows[i].user_id = new_session.user_id
          THEN [rows[i] EXCEPT !.id = new_session.id,
                               !.expiration_ms = new_session.expiration_ms,
                               !.last_use_ms = new_session.last_use_ms]
          ELSE rows[i]]
  ELSE Append(rows, new_session)

\* create_session, lines 137-141: Session::belonging_to(&user).first().
SessionBelongingTo(rows, user_id) ==
  LET found == SelectSeq(rows, LAMBDA r : r.user_id = user_id)
  IN  IF found = <<>> THEN None ELSE Some(found[1])

\* A use_session that does not look at the expiration.
FindSessionAnyAge(rows, id, current_time_ms) ==
  LET found == SelectSeq(rows, LAMBDA r : r.id = id)
  IN  IF found = <<>> THEN None ELSE Some(found[1])

\* use_session, lines 158-161: the first row with the id whose
\* expiration_ms is greater than current_time_ms.
FindSession(rows, id, current_time_ms) ==
  LET found == SelectSeq(rows, LAMBDA r :
                 r.id = id /\ r.expiration_ms > current_time_ms)
  IN  IF found = <<>> THEN None ELSE Some(found[1])

\* use_session, line 165: diesel::update(user_sessions).set(&session) has
\* the table as its target and no filter, and the changeset of the struct
\* is every column but the primary key: user_id, expiration_ms and
\* last_use_ms of every row are set to those of the session.
UpdateSessions(rows, session) ==
  [i \in DOMAIN rows |->
     [rows[i] EXCEPT !.user_id = session.user_id,
                     !.expiration_ms = session.expiration_ms,
                     !.last_use_ms = session.last_use_ms]]

\* create_session called directly.
RepoCreateSession(user_id, current_time_ms) ==
  /\ apiLast.n < MaxCalls
  /\ LET new_session == Session(uuid + 1, user_id,
                                current_time_ms + SESSION_DURATION_MILLIS,
                                current_time_ms)
         rows == CreateSession(user_sessions, new_session)
     IN  /\ user_sessions' = rows
         /\ apiLast' = [op |-> "create_session", n |-> apiLast.n + 1,
                        args |-> <<user_id, current_time_ms>>,
                        result |-> "ok",
                        value |-> SessionBelongingTo(rows, user_id),
                        calls |-> <<"create_session">>]
  /\ uuid' = uuid + 1
  /\ UNCHANGED <<users, ctlAccounts, pairsTable>>
  /\ UNCHANGED notApi

\* use_session called directly: the transaction of lines 157-168, rolled
\* back when a statement fails; NotFound when no row is found.
RepoUseSession(id, current_time_ms) ==
  /\ apiLast.n < MaxCalls
  /\ id <= uuid + 1
  /\ LET found == FindSession(user_sessions, id, current_time_ms) IN
       IF found = None
       THEN /\ apiLast' = [op |-> "use_session", n |-> apiLast.n + 1,
                           args |-> <<id, current_time_ms>>,
                           result |-> "NotFound", value |-> None,
                           calls |-> <<"use_session">>]
            /\ UNCHANGED user_sessions
       ELSE LET session == [found[1] EXCEPT !.last_use_ms = current_time_ms]
                rows == UpdateSessions(user_sessions, session)
            IN  IF UniqueUserId(rows)
                THEN /\ user_sessions' = rows
                     /\ apiLast' = [op |-> "use_session", n |-> apiLast.n + 1,
                                    args |-> <<id, current_time_ms>>,
                                    result |-> "ok", value |-> Some(session),
                                    calls |-> <<"use_session">>]
                ELSE /\ UNCHANGED user_sessions
                     /\ apiLast' = [op |-> "use_session", n |-> apiLast.n + 1,
                                    args |-> <<id, current_time_ms>>,
                                    result |-> "Faillable", value |-> None,
                                    calls |-> <<"use_session">>]
  /\ UNCHANGED <<users, uuid, ctlAccounts, pairsTable>>
  /\ UNCHANGED notApi

NextUserRepo ==
  \/ \E user_id \in UserIds, now \in Nows : RepoCreateSession(user_id, now)
  \/ \E id \in SessionIds, now \in Nows : RepoUseSession(id, now)

(***************************************************************************)
(* The controllers (controller/auth.rs, controller/mod.rs).  A request is  *)
(* one action: the handler runs to its return.  apiLast records the        *)
(* request, the answer and the repository calls of the handler, in order.  *)
(* fail names the repository call that the storage makes fail, if any, and *)
(* is recorded after the request's own fields.                             *)
(***************************************************************************)
Usernames == 1..NumUsers

Passwords == {1, 2}

\* The currency the pairs of a run are quoted in.
Quotes == {0}

\* Claims.roles: no roles, an empty list, the admin role.
ClaimsRoles == {None, Some(<<>>), Some(<<"admin">>)}

\* A has_role satisfied by any list of roles.
HasRoleAny(roles, role) == roles # None

\* Claims::has_role
HasRole(roles, role) ==
  IF roles = None THEN FALSE
  ELSE \E i \in DOMAIN roles[1] : roles[1][i] = role

\* hash_password: the BCrypt string of a password, which is not the password.
HashPassword(password) == 100 + password

\* verify_password
VerifyPassword(password, hash) == hash = HashPassword(password)

\* User::check_password
CheckPassword(user, value) == VerifyPassword(value, user.password)

\* UserRepository::create: insert the row; the username is unique.
UserCreate(rows, new_user) ==
  IF \E i \in DOMAIN rows : rows[i].username = new_user.username
  THEN None
  ELSE Some(Append(rows, [id |-> Len(rows) + 1, username |-> new_user.username,
                          password |-> new_user.password]))

\* UserRepository::get: the first user with the username.
UserGet(rows, username) ==
  LET found == SelectSeq(rows, LAMBDA r : r.username = username)
  IN  IF found = <<>> THEN None ELSE Some(found[1])

\* A map_wrong_creds that hands the repository's NotFound through.
MapWrongCredsTells(e) == IF e = "NotFound" THEN "NotFound" ELSE "Internal"

\* map_wrong_creds
MapWrongCreds(e) == IF e = "NotFound" THEN "WrongCredentials" ELSE "Internal"

\* NewAccount::new
NewAccountNew(addr, pending_update) ==
  [address |-> addr, balance |-> 0, stake |-> 0, lottery_power |-> 0,
   pending_update |-> pending_update]

\* set_account: the first row with the address.
AccountGet(rows, addr) ==
  LET found == SelectSeq(rows, LAMBDA r : r.address = addr)
  IN  IF found = <<>> THEN None ELSE Some(found[1])

\* PriceRepository::create_pair: insert the row.
PairCreate(rows, new_pair) ==
  Append(rows, [id |-> Len(rows) + 1, base |-> new_pair.base, quote |-> new_pair.quote])

\* PriceRepository::create_pair: the first row with the base and the quote.
PairGet(rows, new_pair) ==
  LET found == SelectSeq(rows, LAMBDA r : r.base = new_pair.base /\ r.quote = new_pair.quote)
  IN  IF found = <<>> THEN None ELSE Some(found[1])

Answer(op, args, result, value, calls) ==
  [op |-> op, n |-> apiLast.n + 1, args |-> args, result |-> result, value |-> value,
   calls |-> calls]

\* controller::auth::authorize
Authorize(username, password, now, fail) ==
  /\ apiLast.n < MaxCalls
  /\ LET args == <<username, password, fail>>
         got == IF fail = "get" THEN None ELSE UserGet(users, username)
     IN  IF got = None
         THEN /\ apiLast' = Answer("authorize", args,
                              MapWrongCreds(IF fail = "get" THEN "Faillable" ELSE "NotFound"),
                              None, <<"get">>)
              /\ UNCHANGED <<user_sessions, uuid>>
         ELSE IF ~CheckPassword(got[1], password)
         THEN /\ apiLast' = Answer("authorize", args, "WrongCredentials", None, <<"get">>)
              /\ UNCHANGED <<user_sessions, uuid>>
         ELSE IF fail = "create_session"
         THEN /\ apiLast' = Answer("authorize", args, "Internal", None,
                                   <<"get", "create_session">>)
              /\ uuid' = uuid + 1
              /\ UNCHANGED user_sessions
         ELSE LET new_session == Session(uuid + 1, got[1].id,
                                         now + SESSION_DURATION_MILLIS, now)
                  rows == CreateSession(user_sessions, new_session)
              IN  /\ user_sessions' = rows
                  /\ uuid' = uuid + 1
                  /\ apiLast' = Answer("authorize", args,
                                       IF fail = "token" THEN "Internal" ELSE "ok",
                                       IF fail = "token" THEN None
                                       ELSE SessionBelongingTo(rows, got[1].id),
                                       <<"get", "create_session">>)
  /\ UNCHANGED <<users, ctlAccounts, pairsTable>>
  /\ UNCHANGED notApi

\* controller::auth::create_user
CreateUser(roles, username, password, fail) ==
  /\ apiLast.n < MaxCalls
  /\ LET args == <<roles, username, password, fail>>
         new_user == [username |-> username, password |-> HashPassword(password)]
         created == IF fail = "create" THEN None ELSE UserCreate(users, new_user)
     IN  IF ~HasRole(roles, "admin")
         THEN /\ apiLast' = Answer("create_user", args, "Forbidden", None, <<>>)
              /\ UNCHANGED users
         ELSE IF created = None
         THEN /\ apiLast' = Answer("create_user", args, "Internal", None, <<"create">>)
              /\ UNCHANGED users
         ELSE /\ users' = created[1]
              /\ apiLast' = Answer("create_user", args,
                                   IF fail = "get" THEN "Internal" ELSE "ok",
                                   IF fail = "get" THEN None
                                   ELSE UserGet(created[1], username),
                                   <<"create", "get">>)
  /\ UNCHANGED <<user_sessions, uuid, ctlAccounts, pairsTable>>
  /\ UNCHANGED notApi

\* controller::set_account
SetAccountCtl(roles, address, fail) ==
  /\ apiLast.n < MaxCalls
  /\ LET args == <<roles, address, fail>>
         new_account == NewAccountNew(address, TRUE)
         rows == SetAccount(ctlAccounts, new_account)
     IN  IF ~HasRole(roles, "admin")
         THEN /\ apiLast' = Answer("set_account", args, "Forbidden", None, <<>>)
              /\ UNCHANGED ctlAccounts
         ELSE IF fail = "set_account"
         THEN /\ apiLast' = Answer("set_account", args, "Internal", None, <<"set_account">>)
              /\ UNCHANGED ctlAccounts
         ELSE /\ ctlAccounts' = rows
              /\ apiLast' = Answer("set_account", args, "ok",
                                   AccountGet(rows, address),
                                   <<"set_account">>)
  /\ UNCHANGED <<users, user_sessions, uuid, pairsTable>>
  /\ UNCHANGED notApi

\* controller::create_pair
CreatePair(roles, base, quote, fail) ==
  /\ apiLast.n < MaxCalls
  /\ LET args == <<roles, base, quote, fail>>
         new_pair == [base |-> base, quote |-> quote]
         rows == PairCreate(pairsTable, new_pair)
     IN  IF ~HasRole(roles, "admin")
         THEN /\ apiLast' = Answer("create_pair", args, "Forbidden", None, <<>>)
              /\ UNCHANGED pairsTable
         ELSE IF fail = "create_pair"
         THEN /\ apiLast' = Answer("create_pair", args, "Internal", None, <<"create_pair">>)
              /\ UNCHANGED pairsTable
         ELSE /\ pairsTable' = rows
              /\ apiLast' = Answer("create_pair", args, "ok", PairGet(rows, new_pair),
                                   <<"create_pair">>)
  /\ UNCHANGED <<users, user_sessions, uuid, ctlAccounts>>
  /\ UNCHANGED notApi

\* The requests of the authentication routes.
NextAuth ==
  \/ \E roles \in ClaimsRoles, username \in Usernames, password \in Passwords,
        fail \in {"none", "create", "get"} :
       CreateUser(roles, username, password, fail)
  \/ \E username \in Usernames, password \in Passwords, now \in Nows,
        fail \in {"none", "get", "create_session", "token"} :
       Authorize(username, password, now, fail)

\* The requests of the routes that ask for the admin role.
NextAdmin ==
  \/ \E roles \in ClaimsRoles, username \in Usernames, password \in Passwords,
        fail \in {"none", "create", "get"} :
       CreateUser(roles, username, password, fail)
  \/ \E roles \in ClaimsRoles, address \in 1..NumAccounts,
        fail \in {"none", "set_account"} :
       SetAccountCtl(roles, address, fail)
  \/ \E roles \in ClaimsRoles, base \in 1..NumPairs, quote \in Quotes,
        fail \in {"none", "create_pair"} :
       CreatePair(roles, base, quote, fail)

(***************************************************************************)
(* The state after construction, and the specifications.                   *)
(***************************************************************************)
Init ==
  \* storage after the migrations (the seed block), or with no block at all
  /\ blocks \in {<<>>, <<SeedBlock>>}
  /\ accounts = InitAccounts
  /\ rewards = <<>>
  \* no tick is running
  /\ pc = "idle"
  /\ status = "none"
  /\ tip = 0
  /\ height = 0
  /\ info = None
  /\ rewardsMap = EmptyMap
  /\ todo = <<>>
  /\ failures = 0
  /\ startHeight = 0
  /\ noneAt = 0
  /\ prevNone = 0
  /\ failedAt = NoFailure
  /\ gcCalls = <<>>
  /\ hashSeen = {}
  \* the reward table before any direct call
  /\ rwRows = <<>>
  /\ rwLast = [reward |-> None, result |-> "none", calls |-> 0]
  \* accounts followed and never refreshed; the node has one block
  /\ raAccounts = [a \in 1..NumAccounts |-> RefreshAccountRow(a)]
  /\ raTip = 1
  /\ rpc = "idle"
  /\ raStatus = "none"
  /\ raTodo = <<>>
  /\ raBlock = 0
  /\ raInfo = None
  /\ raBaker = None
  /\ raFailures = 0
  /\ raPending = {}
  /\ raRest = {}
  /\ raFailedAt = "none"
  /\ raTipCalls = 0
  /\ raHashes = {}
  /\ raFlagAt = [a \in 1..NumAccounts |-> 0]
  \* no status reported yet
  /\ stReports = <<>>
  /\ stClock = 0
  /\ spc = "idle"
  /\ stStatus = "none"
  /\ stResources = None
  /\ stNode = None
  /\ stFailures = 0
  /\ stNodeErr = "none"
  /\ stFailedAt = "none"
  \* the blocks table before any direct call
  /\ brRows = <<>>
  /\ brLast = [op |-> "none", below |-> 0, deleted |-> 0, result |-> None, calls |-> 0]
  \* Scheduler::new()
  /\ sJobs = <<>>
  /\ sPhase = "new"
  /\ jpc = <<>>
  /\ jDue = <<>>
  /\ jSeen = <<>>
  /\ jGen = <<>>
  /\ jLast = "none"
  /\ jMid = <<>>
  /\ wVersion = 0
  /\ bSize = 0
  /\ bArrived = 0
  /\ bGen = 0
  /\ hpc = "wait"
  /\ hSeen = 0
  /\ hGen = 0
  /\ hResult = "none"
  /\ graceExpired = FALSE
  \* the prices table after the migrations, and no price tick yet
  /\ prices = <<>>
  /\ prLast = [op |-> "none", arg |-> None, ok |-> TRUE, result |-> None, calls |-> 0]
  /\ prLatest = [p \in PairArgs |-> None]
  /\ xpc = "idle"
  /\ xTodo = <<>>
  /\ xStatus = "none"
  /\ xTicks = 0
  /\ xFailures = 0
  /\ xCalls = <<>>
  /\ xReturned = <<>>
  /\ xBefore = <<>>
  \* no reward yet, no repairer tick yet
  /\ rpRewards = <<>>
  /\ ipc = "idle"
  /\ iArgs = None
  /\ iLast = <<0, 0>>
  /\ iFailures = 0
  /\ qRev = 0
  /\ qpc = "idle"
  /\ qAccounts = <<>>
  /\ qRewards = <<>>
  /\ qEvents = <<>>
  /\ qStatus = "none"
  /\ qSummaries = <<>>
  /\ qInserts = <<>>
  /\ qBefore = <<>>
  \* no user, no session, no account and no pair; no call made
  /\ users = <<>>
  /\ user_sessions = <<>>
  /\ uuid = 0
  /\ ctlAccounts = <<>>
  /\ pairsTable = <<>>
  /\ apiLast = NoCall

SpecFetch == Init /\ [][NextFetch]_vars

SpecReward == Init /\ [][NextReward]_vars

SpecBlockRepo == Init /\ [][NextBlockRepo]_vars

SpecRefresh == Init /\ [][NextRefresh]_vars

SpecInterleaved == Init /\ [][NextInterleaved]_vars

SpecStatus == Init /\ [][NextStatus]_vars

SpecSched == Init /\ [][NextSched]_vars

SpecPriceRepo == Init /\ [][NextPriceRepo]_vars

SpecPrice == Init /\ [][NextPrice]_vars

SpecRepair == Init /\ [][NextRepair]_vars

SpecUserRepo == Init /\ [][NextUserRepo]_vars

SpecAuth == Init /\ [][NextAuth]_vars

SpecAdmin == Init /\ [][NextAdmin]_vars

\* The timer of the grace period fires, the handle task and shutdown() are
\* polled when they can go on.  Nothing is assumed of the job loops: a
\* timer may never be due and an execute() may never return.
FairSpecSched ==
  /\ SpecSched
  /\ WF_vars(HandleChanged)
  /\ WF_vars(HandleArrives)
  /\ WF_vars(HandleReleased)
  /\ WF_vars(GraceExpires)
  /\ WF_vars(HandleTimeout)
  /\ WF_vars(ShutdownReturn)

\* The timers of the job loops fire and a loop whose timer is due is polled:
\* a cron schedule with an upcoming instant reaches it, and tokio wakes the
\* task of a timer that fired.  Nothing is assumed of execute() returning.
FairSpecJobs ==
  /\ SpecSched
  /\ \A j \in JobNames : WF_vars(j \in DOMAIN jpc /\ JobTimerDue(j))
  /\ \A j \in JobNames : WF_vars(j \in DOMAIN jpc /\ JobWakeTimer(j))

(***************************************************************************)
(* What the chain says, read off the events without the fetcher's code.    *)
(***************************************************************************)
StoredHeights == {blocks[i].height : i \in DOMAIN blocks}

LastStored == IF blocks = <<>> THEN 0 ELSE Max(StoredHeights)

StoredAddrs == {accounts[i].address : i \in DOMAIN accounts}

\* The chain as a table, one entry per height the fetcher can ask about.
ChainHeights == 0..(MaxHeight + 1)

EventsTable == [h \in ChainHeights |-> EventsAt(h)]

\* Indexes of the PaydayAccountReward events of block h that name address a.
RewardEventsFor(h, a) ==
  {k \in DOMAIN EventsTable[h] :
     /\ EventsTable[h][k].tag = "PaydayAccountReward"
     /\ EventsTable[h][k].account = <<a>>}

\* Addresses the reward events of block h name.
NamedTable ==
  [h \in ChainHeights |-> {a \in 1..(NumAccounts + 1) : RewardEventsFor(h, a) # {}}]

NamedIn(h) == NamedTable[h]

\* The amount block h gives address a: that of the last event naming a,
\* zero when the event has none.
AmountTable ==
  [h \in ChainHeights |->
    [a \in NamedTable[h] |->
      LET event == EventsTable[h][Max(RewardEventsFor(h, a))]
      IN [kind_baker |->
            IF event.baker_reward = <<>> THEN 0 ELSE event.baker_reward[1],
          kind_transaction_fee |->
            IF event.transaction_fees = <<>> THEN 0 ELSE event.transaction_fees[1]]]]

AmountFor(h, a, kind) == AmountTable[h][a][kind]

\* Indexes of the reward rows of (account id, block h, kind).
RewardRows(id, h, kind) ==
  {i \in DOMAIN rewards :
     /\ rewards[i].account_id = id
     /\ rewards[i].block_hash = 100 + h
     /\ rewards[i].kind = kind}

\* Block h's rewards are in the table: for every stored account it names,
\* one Baker row and one TransactionFee row with the event's amounts.
RewardsRecorded(h) ==
  \A i \in DOMAIN accounts :
    accounts[i].address \in NamedIn(h) =>
      \A kind \in {"kind_baker", "kind_transaction_fee"} :
        /\ Cardinality(RewardRows(accounts[i].id, h, kind)) = 1
        /\ \A r \in RewardRows(accounts[i].id, h, kind) :
             rewards[r].amount = AmountFor(h, accounts[i].address, kind)

\* Every stored account block h names is flagged.
NamedArePending(h) ==
  \A i \in DOMAIN accounts :
    accounts[i].address \in NamedIn(h) => accounts[i].pending_update

\* The reward rows an uninterrupted ingestion of block h inserts, in order:
\* the stored accounts by id (account a has id 10 + a), Baker before fee.
RECURSIVE RowsOfBlock(_, _)
RowsOfBlock(h, a) ==
  IF a > NumAccounts THEN <<>>
  ELSE (IF a \in NamedIn(h)
        THEN << [account_id |-> 10 + a, block_hash |-> 100 + h,
                 amount |-> AmountFor(h, a, "kind_baker"),
                 epoch_ms |-> 1000 * h, kind |-> "kind_baker"],
                [account_id |-> 10 + a, block_hash |-> 100 + h,
                 amount |-> AmountFor(h, a, "kind_transaction_fee"),
                 epoch_ms |-> 1000 * h, kind |-> "kind_transaction_fee"] >>
        ELSE <<>>) \o RowsOfBlock(h, a + 1)

\* The reward table after an uninterrupted ingestion of blocks 1..n.
RECURSIVE RowsUpToRec(_)
RowsUpToRec(n) == IF n <= 0 THEN <<>> ELSE RowsUpToRec(n - 1) \o RowsOfBlock(n, 1)

RowsTable == [n \in ChainHeights |-> RowsUpToRec(n)]

RowsUpTo(n) == RowsTable[n]

IsPrefix(s, t) == Len(s) <= Len(t) /\ SubSeq(t, 1, Len(s)) = s

\* The highest height such that the node returned a hash for it and for
\* every height below it.
HighestHashed == Max({0} \cup {h \in Heights : \A k \in 1..h : k \in hashSeen})

(***************************************************************************)
(* C1.  Gap-free heights.                                                  *)
(***************************************************************************)
NoHeightTwice ==
  \A i, j \in DOMAIN blocks : blocks[i].height = blocks[j].height => i = j

Contiguous ==
  \A h \in 0..MaxHeight :
    (\E a, b \in StoredHeights : a <= h /\ h <= b) => h \in StoredHeights

\* C1 as stated: after any ticks, failed ones too, the stored heights are a
\* contiguous range, no height twice, that ends at the highest height for
\* which the node returned a hash at every step.
C1_Original ==
  (pc = "idle" /\ blocks # <<>>) =>
    /\ NoHeightTwice
    /\ Contiguous
    /\ LastStored = HighestHashed

\* C1 amended: in every state the stored heights are a contiguous range with
\* no height stored twice, every stored height above the seed is one the node
\* returned a hash for, and the range ends at or below the highest height for
\* which the node returned a hash at every step; it ends exactly there
\* between ticks as long as no call has failed.
C1_GapFree ==
  /\ NoHeightTwice
  /\ Contiguous
  /\ \A h \in StoredHeights : h = 0 \/ h \in hashSeen
  /\ LastStored <= HighestHashed
  /\ (pc = "idle" /\ failures = 0 /\ blocks # <<>>) => LastStored = HighestHashed

\* Three blocks ingested over ticks of which one failed and one stopped on a
\* missing hash, and the truncation has removed the seed.
C1_Witness ==
  /\ pc = "idle"
  /\ status = "ok"
  /\ failures > 0
  /\ noneAt # 0
  /\ Cardinality(StoredHeights) >= 2
  /\ 0 \notin StoredHeights

(***************************************************************************)
(* C3.  What a successful ingestion leaves in storage.                     *)
(***************************************************************************)
\* C3: for every block B the fetcher has stored, every stored account named
\* by a PaydayAccountReward event of B has exactly one Baker row and one
\* TransactionFee row keyed by (account, B.hash) with the event's amounts,
\* and is pending; B's row exists right after the ingestion; no reward row of
\* B belongs to an account B's reward events do not name.
C3_Ingested ==
  /\ \A h \in StoredHeights \ {0} :
       /\ RewardsRecorded(h)
       /\ NamedArePending(h)
  /\ \A h \in Heights :
       \A r \in DOMAIN rewards :
         rewards[r].block_hash = 100 + h =>
           \E i \in DOMAIN accounts :
             /\ accounts[i].id = rewards[r].account_id
             /\ accounts[i].address \in NamedIn(h)
  /\ (pc = "hash" /\ height > startHeight) => (height - 1) \in StoredHeights

\* Block 4, whose events name account 1 twice and account 2 once, has just
\* been ingested.
C3_Witness ==
  /\ pc = "hash"
  /\ height = 5
  /\ height > startHeight
  /\ Cardinality({r \in DOMAIN rewards : rewards[r].block_hash = 104}) = 4

(***************************************************************************)
(* C4.  Early exit on a missing hash.                                      *)
(***************************************************************************)
IngestedBelowNone == startHeight..(noneAt - 1)

\* C4 as stated: a tick that met no hash at H ends with success, no block of
\* height >= H, every block it ingested below H kept, and one call of
\* garbage_collect, with H - GC_OFFSET.
C4_Original ==
  (pc = "idle" /\ status = "ok" /\ noneAt # 0) =>
    /\ \A h \in StoredHeights : h < noneAt
    /\ \A h \in IngestedBelowNone : h \in StoredHeights
    /\ gcCalls = <<noneAt - GC_OFFSET>>

\* C4 amended: the blocks the tick ingested below H are kept as far as their
\* height is at least H - GC_OFFSET (the tick's own garbage_collect deletes
\* the lower ones); the tick stores no block of height >= H, calls
\* garbage_collect once, with H - GC_OFFSET, fails only if that call fails,
\* and the next tick starts at H.
C4_EarlyExit ==
  /\ [](noneAt # 0 =>
          /\ \A h \in StoredHeights : h < noneAt
          /\ pc \in {"gc", "idle"}
          /\ (pc = "idle" /\ status = "err") => failedAt.pc = "gc"
          /\ (pc = "idle" /\ status = "ok") =>
               /\ \A h \in IngestedBelowNone :
                    h >= noneAt - GC_OFFSET => h \in StoredHeights
               /\ gcCalls = <<noneAt - GC_OFFSET>>)
  /\ [][(pc = "last" /\ pc' = "hash" /\ prevNone # 0) => height' = prevNone]_vars

\* A tick ingested three blocks, met no hash at the fourth height and ended.
C4_Witness ==
  /\ pc = "idle"
  /\ status = "ok"
  /\ noneAt # 0
  /\ noneAt - startHeight >= 3

C6_Order ==
  /\ [][Len(blocks') > Len(blocks) =>
          /\ blocks'[Len(blocks')].height = LastStored + 1
          /\ RewardsRecorded(blocks'[Len(blocks')].height)
          /\ rewards' = rewards]_vars
  /\ [](\A h \in StoredHeights \ {0} : RewardsRecorded(h))

\* Two blocks stored in one tick, the second with rewards of two accounts.
C6_Witness ==
  /\ pc = "hash"
  /\ startHeight = 3
  /\ height = 5
  /\ RewardRows(11, 4, "kind_baker") # {}
  /\ RewardRows(12, 4, "kind_transaction_fee") # {}

(***************************************************************************)
(* C7.  Re-processing after an interruption.                               *)
(***************************************************************************)
\* C7: whatever calls failed and wherever the process stopped, once block N
\* is stored the reward table is, row for row, the table an uninterrupted
\* ingestion of blocks 1..N leaves (no row twice, none missing), followed at
\* most by the first rows of block N + 1; the flags are those of the blocks
\* ingested; and a tick that follows an interruption at height N starts at N.
C7_Rerun ==
  /\ [](/\ IsPrefix(RowsUpTo(LastStored), rewards)
        /\ IsPrefix(rewards, RowsUpTo(LastStored + 1))
        /\ \A i \in DOMAIN accounts :
             /\ (\E h \in 1..LastStored : accounts[i].address \in NamedIn(h))
                  => accounts[i].pending_update
             /\ accounts[i].pending_update
                  => \E h \in 1..(LastStored + 1) : accounts[i].address \in NamedIn(h))
  /\ [][(pc = "last" /\ pc' = "hash" /\ status = "err"
           /\ failedAt.pc \in {"baker", "fee", "flag", "store"})
          => height' = failedAt.height]_vars

\* A tick stopped between the first reward insert of a block and its store,
\* and a later tick has stored that block.
C7_Witness ==
  /\ failedAt.pc \in {"fee", "flag", "store"}
  /\ failedAt.height \in StoredHeights
  /\ NamedIn(failedAt.height) \cap StoredAddrs # {}
  /\ pc = "idle"
  /\ status = "ok"

(***************************************************************************)
(* C2.  set_reward is idempotent.                                          *)
(***************************************************************************)
RewardKey(r) == <<r.account_id, r.block_hash, r.kind>>

KeysOf(rows) == {RewardKey(rows[i]) : i \in DOMAIN rows}

\* C2: the table never holds two rows of one (account_id, block_hash, kind);
\* every call returns success; a call whose key is in the table leaves the
\* table as it is, and a call with a new key appends its row.
C2_Idempotent ==
  /\ [](/\ \A i, j \in DOMAIN rwRows :
             RewardKey(rwRows[i]) = RewardKey(rwRows[j]) => i = j
        /\ rwLast.calls > 0 => rwLast.result = "ok")
  /\ [][rwLast'.calls > rwLast.calls =>
          LET reward == rwLast'.reward[1] IN
            /\ KeysOf(rwRows') = KeysOf(rwRows) \cup {RewardKey(reward)}
            /\ RewardKey(reward) \in KeysOf(rwRows) => rwRows' = rwRows
            /\ RewardKey(reward) \notin KeysOf(rwRows) =>
                 rwRows' = rwRows \o <<reward>>]_vars

\* A second insert of a key, with another amount, has just returned.
C2_Witness ==
  /\ rwLast.calls = 2
  /\ Len(rwRows) = 1
  /\ rwLast.reward[1].amount # rwRows[1].amount

(***************************************************************************)
(* C8.  shutdown() returns.                                                *)
(***************************************************************************)
\* C8: once shutdown() has sent the signal it returns, whatever the job
\* loops do; and from the moment the grace period has expired the handle's
\* timeout branch is ready, whatever the job loops do.
C8_ShutdownReturns ==
  /\ (sPhase = "sent") ~> (sPhase = "returned")
  /\ []((graceExpired /\ hpc # "done") => ENABLED HandleTimeout)

\* shutdown() has returned by the timeout while an execute() is still
\* running and another loop never left its sleep.
C8_Witness ==
  /\ sPhase = "returned"
  /\ hResult = "timeout"
  /\ \E j \in DOMAIN jpc : jpc[j] = "running"

(***************************************************************************)
(* C9.  No execute() begins after the signal.                              *)
(***************************************************************************)
\* C9: once the shutdown signal has been sent, no sleeping job loop goes on
\* to execute(), also when its timer is due.
C9_NoNewExecute ==
  [][\A j \in DOMAIN jpc :
       (wVersion # 0 /\ jpc[j] = "sleep") => jpc'[j] # "running"]_vars

(***************************************************************************)
(* C10.  The graceful path.                                                *)
(***************************************************************************)
Arrived(j) == jpc[j] \in {"barrier", "done"}

\* C10: the barrier is released only when every registered job loop and the
\* handle have arrived at it, so when the handle ended by the barrier branch
\* every job loop has left its loop.
C10_Graceful ==
  /\ bGen > 0 =>
       /\ \A j \in DOMAIN sJobs : Arrived(j)
       /\ hpc \in {"barrier", "done"}
  /\ hResult = "graceful" =>
       /\ bGen > 0
       /\ \A j \in DOMAIN sJobs : Arrived(j)

\* shutdown() returned by the barrier branch, within the grace period, with
\* two jobs registered.
C10_Witness ==
  /\ sPhase = "returned"
  /\ hResult = "graceful"
  /\ ~graceExpired
  /\ Cardinality(DOMAIN sJobs) = 2

(***************************************************************************)
(* C11.  A job error ends neither its loop nor any other.                  *)
(***************************************************************************)
JobLoops == DOMAIN jpc \cap DOMAIN jpc'

\* C11: when execute() returns an error the loop goes back to its sleep and
\* the step touches no other loop; a loop leaves its loop only once the
\* shutdown signal was sent; and, while no signal is sent, every sleeping
\* loop (the one that failed and every other) goes on to execute() again.
C11_ErrorKeepsScheduled ==
  /\ [][\A j \in JobLoops :
         (/\ jpc[j] = "running"
          /\ jpc'[j] # "running"
          /\ jLast' = "err")
           => /\ jpc'[j] = "sleep"
              /\ \A k \in JobLoops \ {j} :
                   /\ jpc'[k] = jpc[k]
                   /\ jDue'[k] = jDue[k]]_vars
  /\ [](\A j \in DOMAIN jpc : jpc[j] \in {"barrier", "done"} => wVersion # 0)
  /\ \A k \in JobNames :
       (/\ k \in DOMAIN jpc
        /\ jpc[k] = "sleep"
        /\ jLast = "err")
         ~> ((k \in DOMAIN jpc /\ jpc[k] = "running") \/ wVersion # 0)

\* The last execute() to return has returned an error and, with no shutdown
\* asked for, both jobs are inside execute(): the one that failed is there
\* again, the other is there unhindered.
C11_Witness ==
  /\ wVersion = 0
  /\ jLast = "err"
  /\ Cardinality(DOMAIN jpc) = 2
  /\ \A j \in DOMAIN jpc : jpc[j] = "running"

(***************************************************************************)
(* C12.  The state machine of a job loop.                                  *)
(***************************************************************************)
\* Scheduled: in the select! of line 94.  Running: inside execute().
\* Terminated: past the closed branch (at the barrier, or returned).
LoopState(p) ==
  CASE p = "sleep" -> "Scheduled"
    [] p = "running" -> "Running"
    [] OTHER -> "Terminated"

\* C12: a job loop only goes Scheduled -> Running (with its timer due),
\* Running -> Scheduled and Scheduled -> Terminated (with a signal it has not
\* seen); never Running -> Terminated, and never out of Terminated.
C12_Transitions ==
  [][\A j \in JobLoops :
       LET from == LoopState(jpc[j])
           to == LoopState(jpc'[j])
       IN \/ from = to
          \/ from = "Scheduled" /\ to = "Running" /\ jDue[j]
          \/ from = "Running" /\ to = "Scheduled"
          \/ from = "Scheduled" /\ to = "Terminated" /\ jSeen[j] # wVersion]_vars

\* Two loops have returned after the shutdown, and an execute() had run to
\* its end before.
C12_Witness ==
  /\ jLast # "none"
  /\ Cardinality(DOMAIN jpc) = 2
  /\ \A j \in DOMAIN jpc : jpc[j] = "done"

(***************************************************************************)
(* C13.  A signal sent while a job is inside execute().                    *)
(***************************************************************************)
\* C13 (not interrupted): the step that sends the signal leaves every loop
\* where it is, and a loop inside execute() leaves it only by its return.
C13_NotInterrupted ==
  [][\A j \in JobLoops :
       /\ wVersion' # wVersion => jpc'[j] = jpc[j]
       /\ jpc[j] = "running" => jpc'[j] \in {"running", "sleep"}]_vars

\* C13 (not lost): back in its select!, a loop that was inside execute()
\* when the signal was sent has the closed branch ready, timer due or not.
C13_NotLost ==
  \A j \in DOMAIN jpc :
    (jMid[j] /\ jpc[j] = "sleep") => jSeen[j] # wVersion

\* C13: a signal sent while a job is inside execute() does not interrupt the
\* call, is not lost, and is what the loop observes at its next iteration:
\* back in its select!, the loop does not go on to another execute().
C13_ObservedAtNextIteration ==
  [][\A j \in JobLoops :
       /\ wVersion' # wVersion => jpc'[j] = jpc[j]
       /\ jpc[j] = "running" => jpc'[j] \in {"running", "sleep"}
       /\ (jMid[j] /\ jpc[j] = "sleep") =>
            /\ jSeen[j] # wVersion
            /\ jpc'[j] # "running"]_vars

(***************************************************************************)
(* C14.  No local block yet.                                               *)
(***************************************************************************)
\* C14: with no block stored and no call failing, a tick of the fetcher does
\* not fail: not-found for the last block is an outcome it branches on.
C14_NotFoundNotFatal ==
  (blocks = <<>> /\ failures = 0 /\ pc = "idle") => status # "err"

(***************************************************************************)
(* C15.  The boundary of garbage_collect.                                  *)
(***************************************************************************)
BrHeights(rows) == {rows[i].height : i \in DOMAIN rows}

\* Number of rows equal to r.
BrCount(rows, r) == Cardinality({i \in DOMAIN rows : rows[i] = r})

\* C15: garbage_collect(X) leaves no row of height < X, leaves every row of
\* height >= X as it was (as many times as it was stored) and adds none;
\* when every row was below X the table is empty, and get_last_block reports
\* not-found exactly on an empty table.
C15_GcBoundary ==
  [][
      /\ (brLast'.op = "garbage_collect" /\ brLast'.calls = brLast.calls + 1) =>
            (LET X == brLast'.below IN
               /\ \A h \in BrHeights(brRows') : h >= X
               /\ \A i \in DOMAIN brRows :
                    brRows[i].height >= X =>
                      BrCount(brRows', brRows[i]) = BrCount(brRows, brRows[i])
               /\ \A i \in DOMAIN brRows' :
                    \E k \in DOMAIN brRows : brRows[k] = brRows'[i]
               /\ (\A h \in BrHeights(brRows) : h < X) => brRows' = <<>>)
      /\ (brLast'.op = "get_last_block") =>
            (/\ brRows' = brRows
             /\ (brLast'.result = None) <=> (brRows = <<>>)
             /\ (brLast'.result # None) =>
                   (/\ \E i \in DOMAIN brRows : brRows[i] = brLast'.result[1]
                    /\ \A h \in BrHeights(brRows) : h <= brLast'.result[1].height))
    ]_vars

\* garbage_collect(X) deleted one row and kept the row at height X; and a
\* get_last_block found it.
C15_Witness ==
  /\ brLast.op = "get_last_block"
  /\ brLast.deleted = 1
  /\ brLast.result # None
  /\ brLast.result[1].height = brLast.below

\* garbage_collect(X) deleted every row, and get_last_block reported
\* not-found.
C15_WitnessEmpty ==
  /\ brLast.op = "get_last_block"
  /\ brLast.deleted = 2
  /\ brLast.result = None

(***************************************************************************)
(* C16.  The truncation at the end of a tick.                              *)
(***************************************************************************)
\* C16: a tick calls garbage_collect only once it has left its loop, hence
\* after its last store; a tick that ended with success has called it
\* exactly once, with (highest stored height + 1) - GC_OFFSET, the first
\* height it did not ingest; and a tick that has left its loop has
\* garbage_collect as its one next call.
C16_GcOnce ==
  /\ [](pc # "idle" => gcCalls = <<>>)
  /\ []((pc = "idle" /\ status = "ok" /\ gcCalls # <<>>) =>
           gcCalls = <<(LastStored + 1) - GC_OFFSET>>)
  /\ [][
         /\ (pc = "gc" /\ pc' # "gc") =>
               (\/ (gcCalls' = <<height - GC_OFFSET>> /\ status' = "ok")
                \/ (gcCalls' = <<>> /\ status' = "err" /\ failedAt'.pc = "gc"))
         /\ (pc = "gc") => (height = LastStored + 1)
         /\ (Len(blocks') > Len(blocks)) => (pc = "store" /\ gcCalls = <<>>)
         /\ (gcCalls' # gcCalls) => (pc = "gc" \/ (pc = "idle" /\ gcCalls' = <<>>))
       ]_vars

\* A tick that stopped on a missing hash below the tip, after it had stored
\* a block, has called garbage_collect.
C16_Witness ==
  /\ pc = "idle"
  /\ status = "ok"
  /\ Len(gcCalls) = 1
  /\ noneAt # 0
  /\ noneAt > startHeight

(***************************************************************************)
(* C17 - C19.  RefreshAccountsJob.  What the node says of an address at a  *)
(* block, read off the node's answers without the job's code.              *)
(***************************************************************************)
RaRow(address) ==
  CHOOSE r \in {raAccounts[i] : i \in DOMAIN raAccounts} : r.address = address

StakedAt(hash, address) ==
  IF AccountBakerOf(hash, address) = None THEN 0
  ELSE AccountBakerOf(hash, address)[1].staked_amount

LotteryPowerAt(hash, address) ==
  IF BakerOf(hash, address) = None THEN 0
  ELSE BakerOf(hash, address)[1].baker_lottery_power

\* The row of the address holds what the node says of it at the block, and
\* is not pending.
RefreshedAt(hash, address) ==
  /\ RaRow(address).balance =
       AccountInfoOf(hash, address).account_amount - StakedAt(hash, address)
  /\ RaRow(address).stake = StakedAt(hash, address)
  /\ RaRow(address).lottery_power = LotteryPowerAt(hash, address)
  /\ RaRow(address).pending_update = FALSE

PendingRows == {raAccounts[i].address : i \in {k \in DOMAIN raAccounts :
                                                raAccounts[k].pending_update}}

\* C17: the tick works on the accounts that were pending when it started;
\* after a tick that returned Ok each of them holds balance = total - staked,
\* stake = staked, the baker's lottery power (0 for none) and is not pending;
\* no step of a tick changes the row of an account that was not pending.
C17_Refreshed ==
  /\ []((rpc = "idle" /\ raStatus = "ok") =>
          \A a \in raPending : RefreshedAt(raBlock, a))
  /\ [][
         /\ (rpc = "pending" /\ rpc' = "tip") => (raPending' = PendingRows)
         /\ (rpc # "idle") =>
               (/\ Len(raAccounts') = Len(raAccounts)
                /\ \A i \in DOMAIN raAccounts :
                     (raAccounts[i].address \notin raPending') =>
                       (raAccounts'[i] = raAccounts[i]))
       ]_vars

\* A tick returned Ok after it refreshed account 1, a staking baker, and
\* left alone account 2, which an earlier tick had refreshed at another
\* block.
C17_Witness ==
  /\ rpc = "idle"
  /\ raStatus = "ok"
  /\ raPending = {1}
  /\ RaRow(1).stake # 0
  /\ RaRow(1).lottery_power # 0
  /\ RaRow(2).balance # 0
  /\ ~RefreshedAt(raBlock, 2)

(***************************************************************************)
(* C18.  A node query fails in the middle of a tick.                       *)
(***************************************************************************)
\* C18: the step in which a query of get_account_info or get_baker fails
\* ends the tick with an error and writes nothing; the account it failed on
\* and those after it are still pending, with the row they had (no step of
\* the tick changes the row of an account it has not finished); the
\* accounts before it are refreshed and not pending.
C18_FailureStops ==
  /\ []((rpc = "idle" /\ raStatus = "err" /\ raFailedAt \in {"info", "baker"}) =>
          /\ raRest # {}
          /\ \A a \in raRest : RaRow(a).pending_update
          /\ \A a \in raPending \ raRest : RefreshedAt(raBlock, a))
  /\ [][
         /\ (rpc \in {"info", "baker"} /\ raStatus' = "err" /\ rpc' = "idle") =>
               (/\ raAccounts' = raAccounts
                /\ raRest' = raRest
                /\ AddressesOf(raTodo) = raRest)
         /\ (rpc \notin {"idle", "pending"}) =>
               (\A i \in DOMAIN raAccounts :
                  (raAccounts[i].address \in raRest') =>
                    (raAccounts'[i] = raAccounts[i]))
       ]_vars

\* get_baker failed for the second of two pending accounts: the first is
\* refreshed, the second still pending.
C18_Witness ==
  /\ rpc = "idle"
  /\ raStatus = "err"
  /\ raFailedAt = "baker"
  /\ raPending = {1, 2}
  /\ raRest = {2}

(***************************************************************************)
(* C19.  One snapshot per tick.                                            *)
(***************************************************************************)
\* C19: a tick calls get_last_block once, after get_for_update and before
\* any query about an account, and every get_account_info and get_baker of
\* the tick names the hash that call returned, whatever the node's tip has
\* become since.
C19_OneSnapshot ==
  /\ [](/\ raTipCalls <= 1
        /\ raHashes \subseteq {raBlock}
        /\ (rpc \in {"pending", "tip"}) => (raTipCalls = 0 /\ raHashes = {})
        /\ (rpc \in {"info", "baker", "set"}) => (raTipCalls = 1)
        /\ (rpc = "idle" /\ raStatus = "ok") => (raTipCalls = 1))
  /\ [][(raTipCalls' = raTipCalls + 1) =>
          (rpc = "tip" /\ raBlock' = HashOf(raTip))]_vars

\* The tick is at its second account, both queries of which it made with
\* the hash it fetched, and the node's tip has advanced since.
C19_Witness ==
  /\ rpc = "set"
  /\ Len(raTodo) = 1
  /\ Cardinality(raPending) = 2
  /\ raTip > HeightOfHash(raBlock)
  /\ raHashes = {raBlock}

(***************************************************************************)
(* C20.  A status report without the node.                                 *)
(***************************************************************************)
ReportsAt(timestamp_ms) ==
  {i \in DOMAIN stReports : stReports[i].timestamp_ms = timestamp_ms}

\* C20: a node query that fails never ends the tick; the tick goes on to
\* report(), which adds exactly one row, with no node and with the resources
\* get_system_stats gathered; a tick fails only by a repository call; and
\* after a tick that returned Ok the table holds exactly one report of that
\* tick, with no node when a node query failed.
C20_Degraded ==
  /\ []((stNodeErr # "none") => (spc \in {"report", "gc", "idle"} /\ stNode = None))
  /\ []((spc = "idle" /\ stStatus = "err") => (stFailedAt \in {"report", "gc"}))
  /\ []((spc = "idle" /\ stStatus = "ok" /\ stNodeErr # "none") =>
          (/\ Cardinality(ReportsAt(stClock)) = 1
           /\ \A i \in ReportsAt(stClock) :
                /\ stReports[i].node = None
                /\ stReports[i].resources = stResources[1]))
  /\ [][
         /\ (spc \in {"info", "uptime", "stats"}) =>
               (/\ spc' \in {"uptime", "stats", "report"}
                /\ stStatus' = stStatus
                /\ stResources' = stResources)
         /\ (spc = "report" /\ spc' = "gc") =>
               (/\ Len(stReports') = Len(stReports) + 1
                /\ SubSeq(stReports', 1, Len(stReports)) = stReports
                /\ stReports'[Len(stReports')].node = stNode
                /\ stReports'[Len(stReports')].resources = stResources[1]
                /\ stReports'[Len(stReports')].timestamp_ms = stClock)
         /\ (Len(stReports') > Len(stReports)) => (spc = "report")
       ]_vars

\* The third tick returned Ok after get_node_uptime failed: its report has
\* no node and every host metric, and the report of an earlier tick, which
\* reached the node, is kept beside it.
C20_Witness ==
  /\ spc = "idle"
  /\ stStatus = "ok"
  /\ stNodeErr = "uptime"
  /\ stClock = 3
  /\ stResources = Some(ResourceStatusJson(TRUE, TRUE, TRUE))
  /\ Len(stReports) = MAX_NUM_REPORT
  /\ \E i \in DOMAIN stReports : stReports[i].node # None

(***************************************************************************)
(* C21.  The status table after a tick.                                    *)
(***************************************************************************)
IdsOf(rows) == {rows[i].id : i \in DOMAIN rows}

Min(a, b) == IF a <= b THEN a ELSE b

\* C21: after a tick that returned Ok the status table holds at most
\* MAX_NUM_REPORT rows and the report of that tick is one of them; the
\* garbage_collect of a tick keeps min(MAX_NUM_REPORT, number of rows) rows,
\* unchanged and in their order, deletes the others, and every row it keeps
\* has a greater timestamp than every row it deletes.
C21_KeepsMostRecent ==
  /\ []((spc = "idle" /\ stStatus = "ok") =>
          (/\ Len(stReports) <= MAX_NUM_REPORT
           /\ ReportsAt(stClock) # {}))
  /\ [][
         (spc = "gc" /\ spc' = "idle" /\ stStatus' = "ok") =>
            (/\ stReports' =
                  SelectSeq(stReports, LAMBDA r : r.id \in IdsOf(stReports'))
             /\ Len(stReports') = Min(MAX_NUM_REPORT, Len(stReports))
             /\ \A i \in DOMAIN stReports :
                  \A k \in DOMAIN stReports' :
                    (stReports[i].id \notin IdsOf(stReports')) =>
                       (stReports'[k].timestamp_ms > stReports[i].timestamp_ms))
       ]_vars

\* The third tick returned Ok after the garbage_collect of the second had
\* failed: of the three rows the one of the first tick is deleted.
C21_Witness ==
  /\ spc = "idle"
  /\ stStatus = "ok"
  /\ stClock = 3
  /\ stFailures = 1
  /\ stFailedAt = "gc"
  /\ Len(stReports) = MAX_NUM_REPORT
  /\ {stReports[i].timestamp_ms : i \in DOMAIN stReports} = {2, 3}

(***************************************************************************)
(* C22.  One price per pair, the latest.                                   *)
(***************************************************************************)
\* C22: the prices table never holds two rows of one pair_id; get_price of a
\* pair returns the price of the last set_price of that pair that succeeded
\* (NotFound when there was none); a set_price leaves get_price of every
\* other pair as it was, and a set_price that fails leaves the table as it
\* was.
C22_LatestPrice ==
  /\ [](\A i \in DOMAIN prices : \A j \in DOMAIN prices :
          (prices[i].pair_id = prices[j].pair_id) => (i = j))
  /\ [](\A p \in PairArgs : GetPrice(prices, p) = prLatest[p])
  /\ []((prLast.op = "get_price") => (prLast.result = prLatest[prLast.arg[1]]))
  /\ [][
         (prLast'.calls > prLast.calls /\ prLast'.op = "set_price") =>
            (/\ \A q \in PairArgs \ {prLast'.arg[1].pair_id} :
                  GetPrice(prices', q) = GetPrice(prices, q)
             /\ prLast'.ok => (GetPrice(prices', prLast'.arg[1].pair_id) = prLast'.arg)
             /\ (~prLast'.ok) => (prices' = prices))
       ]_vars

\* Pair 1 was given a price, then pair 2, then pair 1 another price: the
\* table holds two rows, the row of pair 1 being the later one.
C22_Witness ==
  /\ prLast.calls = 3
  /\ prLast.op = "set_price"
  /\ prLast.ok
  /\ Len(prices) = 2
  /\ prices[1].pair_id = 2
  /\ prices[2] = PriceOf(1, 20, 24)
  /\ prLatest[1] = Some(PriceOf(1, 20, 24))

(***************************************************************************)
(* C23.  One tick of the price job.                                        *)
(***************************************************************************)
\* The set_price calls of the tick that succeeded.
Written == {i \in 1..(Len(xCalls) - 1) : xCalls[i + 1].ok}

\* What get_price answers after the prices of `written` were set on `before`.
PriceAfter(before, written, pair) ==
  LET hits == {i \in written : xReturned[i].pair_id = pair}
  IN  IF hits = {} THEN GetPrice(before, pair) ELSE Some(xReturned[Max(hits)])

\* C23: a finished tick has made one get_prices call, its first call, with
\* all the followed pairs; its other calls are set_price of the returned
\* prices, one each and in their order, every one but the last having
\* succeeded; the tick returned Ok exactly when no call failed, and then
\* every returned price was set; when get_prices failed no set_price was
\* called and the table is as before the tick; the table holds what the
\* succeeded set_price calls wrote and is otherwise as before the tick.
C23_Tick ==
  (xpc = "idle" /\ xStatus # "none") =>
     (/\ Len(xCalls) >= 1
      /\ xCalls[1].op = "get_prices"
      /\ xCalls[1].arg = Followed
      /\ Len(xCalls) - 1 <= Len(xReturned)
      /\ \A i \in 2..Len(xCalls) :
           /\ xCalls[i].op = "set_price"
           /\ xCalls[i].arg = xReturned[i - 1]
           /\ (i < Len(xCalls)) => xCalls[i].ok
      /\ (~xCalls[1].ok) => (Len(xCalls) = 1 /\ prices = xBefore)
      /\ (xStatus = "ok") <=> (\A i \in DOMAIN xCalls : xCalls[i].ok)
      /\ (xStatus = "ok") => (Len(xCalls) - 1 = Len(xReturned))
      /\ \A p \in PairArgs : GetPrice(prices, p) = PriceAfter(xBefore, Written, p))

\* The second tick got the prices of both pairs, set the first and failed
\* at the second: pair 1 has its new price and pair 2 the price of the
\* first tick.
C23_Witness ==
  /\ xpc = "idle"
  /\ xStatus = "err"
  /\ xTicks = 2
  /\ Len(xBefore) = 2
  /\ Len(xReturned) = 2
  /\ Len(xCalls) = 3
  /\ GetPrice(prices, 1) = Some(PriceOf(1, 20, 24))
  /\ GetPrice(xBefore, 1) = Some(PriceOf(1, 10, 12))
  /\ GetPrice(prices, 2) = GetPrice(xBefore, 2)
  /\ xReturned[2] # xBefore[2]

(***************************************************************************)
(* C24.  One tick of the reward repairer.                                  *)
(***************************************************************************)
\* The rows of a kind that an account has for a block.
RowsOfKind(rows, account_id, hash, kind) ==
  {i \in DOMAIN rows :
     /\ rows[i].account_id = account_id
     /\ rows[i].block_hash = hash
     /\ rows[i].kind = kind}

\* The <<account_id, block_hash>> that have a Baker row and no
\* TransactionFee row.
Orphans(rows) ==
  {<<rows[i].account_id, rows[i].block_hash>> : i \in
     {j \in DOMAIN rows :
        /\ rows[j].kind = KindBaker
        /\ RowsOfKind(rows, rows[j].account_id, rows[j].block_hash,
                      KindTransactionFee) = {}}}

\* The amounts of the reward events of the block at height h that name the
\* address, in their order, as the node reports them at the revision.
MatchingValues(h, address, rev) ==
  LET named == SelectSeq(EventsNow(h, rev), LAMBDA e :
                 e.tag = EVENT_TAG_REWARD /\ e.account = Some(address))
  IN  [i \in DOMAIN named |-> <<UnwrapOr(named[i].baker_reward, 0),
                                UnwrapOr(named[i].transaction_fees, 0)>>]

\* The insert_rewards calls of the tick for an account and a block.
InsertsFor(account_id, hash) ==
  SelectSeq(qInserts, LAMBDA c : c.account_id = account_id /\ c.hash = hash)

RepairKeys ==
  {<<AccountRow(a).id, HashOf(h)>> : a \in 1..NumAccounts, h \in Heights}

\* C24: when a repairer tick has returned Ok, it has fetched the summary of
\* a block for an account as many times as the table held Baker rows of
\* that account and block when the tick began (so never for a
\* TransactionFee row); for every such row it has called insert_rewards
\* once per PaydayAccountReward event of the summary that names the
\* account, in their order, with the hash and the epoch of the row and the
\* amounts of the event, absent ones zero; the rows the table held are kept
\* and every Baker row of the table has its TransactionFee row, of the same
\* epoch.
C24_Repaired ==
  (qpc = "idle" /\ qStatus = "ok") =>
     (/\ \A k \in RepairKeys :
           /\ Cardinality({i \in DOMAIN qSummaries : qSummaries[i] = k})
                = Cardinality(RowsOfKind(qBefore, k[1], k[2], KindBaker))
           /\ \A i \in RowsOfKind(qBefore, k[1], k[2], KindBaker) :
                LET values == MatchingValues(HeightOfHash(k[2]), k[1] - 10, qRev)
                IN  InsertsFor(k[1], k[2]) =
                      [n \in DOMAIN values |->
                         [account_id |-> k[1], hash |-> k[2],
                          epoch_ms |-> qBefore[i].epoch_ms, values |-> values[n]]]
           /\ (RowsOfKind(qBefore, k[1], k[2], KindBaker) = {}) =>
                 (InsertsFor(k[1], k[2]) = <<>>)
      /\ Len(qSummaries) =
           Cardinality({i \in DOMAIN qBefore : qBefore[i].kind = KindBaker})
      /\ IsPrefix(qBefore, rpRewards)
      /\ Orphans(rpRewards) = {}
      /\ \A i \in DOMAIN rpRewards : \A j \in DOMAIN rpRewards :
           (/\ rpRewards[i].account_id = rpRewards[j].account_id
            /\ rpRewards[i].block_hash = rpRewards[j].block_hash) =>
              (rpRewards[i].epoch_ms = rpRewards[j].epoch_ms))

\* The tick found two Baker rows without their TransactionFee row, one of
\* them of the block that names its account twice, while the node reported
\* other amounts than BlockFetcher had seen: both rows got their pair.
C24_Witness ==
  /\ qpc = "idle"
  /\ qStatus = "ok"
  /\ qRev = 1
  /\ Cardinality(Orphans(qBefore)) = 2
  /\ Len(rpRewards) = Len(qBefore) + 2
  /\ Len(qInserts) > Len(qSummaries)
  /\ \E i \in DOMAIN qBefore : qBefore[i].kind = KindTransactionFee

(***************************************************************************)
(* C25.  Reward rows are never changed or deleted.                         *)
(***************************************************************************)
\* C25: every step of BlockFetcher, of its insert_rewards and of the
\* repairer leaves each reward row of the table in place and unchanged:
\* the table after the step is the table before it, or that table with rows
\* added at its end.
C25_RewardsOnlyGrow ==
  [][IsPrefix(rpRewards, rpRewards') /\ IsPrefix(rewards, rewards')]_vars

\* The repairer has called set_reward for a Baker row the table holds, with
\* the amount the node reports now, which is not the amount of the row.
C25_Witness ==
  /\ qpc = "fee"
  /\ qRev = 1
  /\ rpRewards = qBefore
  /\ LET last == qInserts[Len(qInserts)] IN
       \E i \in RowsOfKind(rpRewards, last.account_id, last.hash, KindBaker) :
         rpRewards[i].amount # last.values[1]

(***************************************************************************)
(* C26.  Which events make rewards.                                        *)
(***************************************************************************)
\* Indexes of the reward rows of block h.
RowsOfHeight(h) == {r \in DOMAIN rewards : rewards[r].block_hash = 100 + h}

\* C26: every reward row is the row of an account that a PaydayAccountReward
\* event of the row's block names, and its amount is that event's amount of
\* its kind, zero when the event has none; a stored block has two rows for
\* each stored account its PaydayAccountReward events name and no other
\* row, so a block whose reward event lacks an amount is stored all the
\* same; and the only step that changes the accounts is the set_for_update
\* of a block, which changes no account that the block's
\* PaydayAccountReward events do not name.
C26_OnlyRewardEvents ==
  /\ [](\A r \in DOMAIN rewards :
          LET h == rewards[r].block_hash - 100
              a == rewards[r].account_id - 10
          IN  /\ a \in NamedIn(h)
              /\ rewards[r].amount = AmountFor(h, a, rewards[r].kind))
  /\ [](\A h \in StoredHeights \ {0} :
          Cardinality(RowsOfHeight(h)) = 2 * Cardinality(NamedIn(h) \cap StoredAddrs))
  /\ [][
         (accounts' # accounts) =>
            (/\ pc = "flag"
             /\ pc' = "store"
             /\ \A i \in DOMAIN accounts :
                  (accounts'[i] # accounts[i]) =>
                     (/\ accounts[i].address \in NamedIn(height)
                      /\ accounts'[i] = [accounts[i] EXCEPT !.pending_update = TRUE]))
       ]_vars

\* Blocks 2 and 3 are stored.  Block 2 has an event of another tag that
\* names account 1, a reward event without an account and a reward event
\* without a baker reward that names account 2: its rows are the two of
\* account 2, the Baker row with amount zero.  Block 3 has no event and no
\* row.
C26_Witness ==
  /\ {2, 3} \subseteq StoredHeights
  /\ Cardinality(RowsOfHeight(2)) = 2
  /\ \A r \in RowsOfHeight(2) : rewards[r].account_id = 12
  /\ \E r \in RowsOfHeight(2) : rewards[r].kind = KindBaker /\ rewards[r].amount = 0
  /\ RowsOfHeight(3) = {}
  /\ pc = "flag"
  /\ height = 4

(***************************************************************************)
(* C27.  A tick catches up with the tip.                                   *)
(***************************************************************************)
\* C27 as stated: a tick that returns Ok, the node having returned a hash
\* for every height it was asked about, ends with the highest stored height
\* equal to the tip that get_last_block returned to the tick.
C27_Original ==
  [][
      (pc = "gc" /\ pc' = "idle" /\ status' = "ok" /\ noneAt = 0) =>
         (LastStored' = tip)
    ]_vars

\* C27 amended: such a tick ends with the highest stored height equal to the
\* tip when the tip is not below the height stored before the tick,
\* whatever the number of blocks between them, and equal to the height
\* stored before the tick otherwise, the tick then storing nothing.
C27_CatchesUp ==
  [][
      (pc = "gc" /\ pc' = "idle" /\ status' = "ok" /\ noneAt = 0) =>
         (/\ (tip >= startHeight - 1) => (LastStored' = tip)
          /\ (tip < startHeight - 1) =>
                (LastStored' = startHeight - 1 /\ StoredHeights' \subseteq StoredHeights))
    ]_vars

\* One tick, with no failure before it, has gone from the seed block to the
\* tip of the whole chain.
C27_Witness ==
  /\ pc = "idle"
  /\ status = "ok"
  /\ failures = 0
  /\ noneAt = 0
  /\ startHeight = 1
  /\ LastStored = MaxHeight
  /\ Len(gcCalls) = 1

(***************************************************************************)
(* C28.  Baker and TransactionFee rows as a pair.                          *)
(***************************************************************************)
\* C28 as stated: in every state, after a failed call too, an account has a
\* Baker row for a block exactly when it has a TransactionFee row for it.
C28_Paired ==
  \A r \in DOMAIN rewards :
    \E s \in DOMAIN rewards :
      /\ rewards[s].account_id = rewards[r].account_id
      /\ rewards[s].block_hash = rewards[r].block_hash
      /\ rewards[s].kind # rewards[r].kind

(***************************************************************************)
(* C29.  The flag write precedes the block store.                          *)
(***************************************************************************)
\* C29: whenever a block row is added, also by a tick that follows a failed
\* or interrupted one, every stored account whose address is named by a
\* reward event of that block has pending_update set already in the state
\* the store starts from, and the store itself writes no flag.
C29_FlaggedBeforeStore ==
  [][(Len(blocks') > Len(blocks)) =>
       (/\ NamedArePending(blocks'[Len(blocks')].height)
        /\ NamedIn(blocks'[Len(blocks')].height) = DOMAIN rewardsMap
        /\ accounts' = accounts)]_vars

\* A tick failed after block 2 was stored: its row is in the table and the
\* stored account its reward event names is flagged.
C29_Witness ==
  /\ pc = "idle"
  /\ status = "err"
  /\ failures > 0
  /\ 2 \in StoredHeights
  /\ \E i \in DOMAIN accounts :
       /\ accounts[i].address \in NamedIn(2)
       /\ accounts[i].pending_update

(***************************************************************************)
(* C30.  A schedule without an upcoming instant.                           *)
(***************************************************************************)
\* C30: the loop of a job whose schedule has no upcoming instant never waits
\* for time to pass: whenever it is at its select!, at the start and after
\* each return of execute(), whether Ok or Err, its timer is already due, and
\* from there it leaves the select!, into execute() unless the branch of
\* the shutdown signal is the one taken (it is never at the select! for good).
C30_FiresAtOnce ==
  /\ [](\A j \in DOMAIN jpc :
          (sJobs[j] = "exhausted" /\ jpc[j] = "sleep") => jDue[j])
  /\ [][\A j \in JobLoops :
          (sJobs[j] = "exhausted" /\ jpc[j] = "sleep" /\ jpc'[j] # "sleep") =>
            (\/ jpc'[j] = "running"
             \/ (jSeen[j] # wVersion /\ jpc'[j] \in {"barrier", "done"}))]_vars
  /\ \A j \in JobNames :
       []<>(~((j \in DOMAIN jpc) /\ (sJobs[j] = "exhausted") /\ (jpc[j] = "sleep")))

\* The only job has an exhausted schedule; its execute() has returned and
\* the loop is back at its select! with the timer due, no shutdown sent.
C30_Witness ==
  /\ sPhase = "started"
  /\ DOMAIN jpc = {1}
  /\ sJobs[1] = "exhausted"
  /\ jLast = "err"
  /\ jpc[1] = "sleep"
  /\ jDue[1]

(***************************************************************************)
(* C35.  A failed call ends the tick.                                      *)
(***************************************************************************)
\* The calls of the loop over the heights (do_block and do_rewards included).
LoopCalls == {"hash", "info", "summary", "accounts", "baker", "fee", "flag", "store"}

\* C35: a call that fails ends the tick at once with the error: the step
\* stores and deletes no block and calls no garbage_collect, and no
\* garbage_collect was called before it in the tick; when the call was one
\* of the loop at height H, the blocks the tick stored below H are there,
\* H - 1 is the highest stored height until the next tick reads it, and
\* that tick starts its loop at H.
C35_FailEndsTick ==
  /\ [][(failures' # failures) =>
          (/\ pc' = "idle"
           /\ status' = "err"
           /\ failedAt' = [pc |-> pc, height |-> height]
           /\ blocks' = blocks
           /\ gcCalls' = <<>>
           /\ gcCalls = <<>>)]_vars
  /\ []((pc \in {"idle", "tip", "last"} /\ status = "err" /\ failedAt.pc \in LoopCalls) =>
          (/\ LastStored = failedAt.height - 1
           /\ \A h \in StoredHeights : h < failedAt.height
           /\ (startHeight > 0 =>
                 \A h \in startHeight..(failedAt.height - 1) : h \in StoredHeights)))
  /\ [][(pc = "last" /\ pc' = "hash") =>
          (/\ height' = LastStored + 1
           /\ ((status = "err" /\ failedAt.pc \in LoopCalls) =>
                 height' = failedAt.height))]_vars

\* The summary of block 3 failed after blocks 1 and 2 were stored, and the
\* next tick has read the last stored block and is at height 3 again.
C35_Witness ==
  /\ pc = "hash"
  /\ status = "err"
  /\ failedAt = [pc |-> "summary", height |-> 3]
  /\ height = 3
  /\ startHeight = 3
  /\ {1, 2} \subseteq StoredHeights

(***************************************************************************)
(* C37.  One execute() at a time per job.                                  *)
(***************************************************************************)
\* C37: every registered name has one loop, which is either at its select!
\* or inside one execute(); no timer runs for a loop inside execute(), and
\* execute() is entered only from the select! with the timer due; the next
\* instant is computed when execute() returns, so a job whose schedule has
\* upcoming instants is back at its select! with a timer that is not due,
\* and enters execute() again only after a new instant was reached.
C37_OneAtATime ==
  /\ []((sPhase # "new") => (DOMAIN jpc = DOMAIN sJobs))
  /\ [](\A j \in DOMAIN jpc : (jpc[j] = "running") => ~jDue[j])
  /\ [][\A j \in JobLoops :
          /\ (jpc[j] # "running" /\ jpc'[j] = "running") =>
               (jpc[j] = "sleep" /\ jDue[j])
          /\ (jpc[j] = "running" /\ jpc'[j] # "running") =>
               (/\ jpc'[j] = "sleep"
                /\ jDue'[j] = (sJobs[j] = "exhausted"))
          /\ (jpc[j] = "running" /\ jDue'[j] # jDue[j]) => jpc'[j] = "sleep"]_vars

\* The one job has a schedule with upcoming instants; its execute() has
\* returned and the loop waits at its select! for an instant still to come.
C37_Witness ==
  /\ sPhase = "started"
  /\ DOMAIN jpc = {1}
  /\ sJobs[1] = "cron"
  /\ jLast = "ok"
  /\ jpc[1] = "sleep"
  /\ ~jDue[1]

(***************************************************************************)
(* C38.  The checkpoint survives the truncation.                           *)
(***************************************************************************)
\* C38: no step of a tick lowers the highest stored height or empties a
\* table that has a row, whatever tip the node reports; and the step that
\* calls garbage_collect keeps exactly the rows whose height is at least
\* the highest stored height + 1 - GC_OFFSET, the checkpoint among them.
C38_CheckpointKept ==
  /\ [][/\ LastStored' >= LastStored
        /\ (blocks # <<>>) => (blocks' # <<>>)]_vars
  /\ [][(gcCalls' # gcCalls /\ gcCalls' # <<>>) =>
          (/\ gcCalls' = <<LastStored + 1 - GC_OFFSET>>
           /\ blocks' = SelectSeq(blocks,
                          LAMBDA r : r.height >= LastStored + 1 - GC_OFFSET)
           /\ LastStored \in StoredHeights')]_vars

\* A tick that found nothing to ingest above block 5 has truncated the
\* table: blocks 4 and 5 remain.
C38_Witness ==
  /\ pc = "idle"
  /\ status = "ok"
  /\ startHeight = 6
  /\ gcCalls = <<4>>
  /\ StoredHeights = {4, 5}

(***************************************************************************)
(* C39.  The repairer adds only the missing half of a pair.                *)
(***************************************************************************)
\* C39: a step of a repairer tick that changes the reward table appends
\* rows, each for an account and a block that had a Baker row before the
\* step; a tick that returned Ok on a table where every Baker row had its
\* TransactionFee row has left the table as it was; and after a tick that
\* returned Ok no Baker row lacks its TransactionFee row, so the tick that
\* follows is such a tick and changes nothing.
C39_OnlyMissingHalf ==
  /\ [][(qpc # "idle" /\ rpRewards' # rpRewards) =>
          (/\ IsPrefix(rpRewards, rpRewards')
           /\ \A i \in (DOMAIN rpRewards') \ (DOMAIN rpRewards) :
                RowsOfKind(rpRewards, rpRewards'[i].account_id,
                           rpRewards'[i].block_hash, KindBaker) # {})]_vars
  /\ []((qpc = "idle" /\ qStatus = "ok" /\ Orphans(qBefore) = {}) =>
          (rpRewards = qBefore))
  /\ []((qpc = "idle" /\ qStatus = "ok") => (Orphans(rpRewards) = {}))

\* A tick has returned Ok on a table of two complete pairs, after asking
\* the node for both blocks, and the table is the one it began with.
C39_Witness ==
  /\ qpc = "idle"
  /\ qStatus = "ok"
  /\ Len(qBefore) = 4
  /\ Orphans(qBefore) = {}
  /\ Len(qSummaries) = 2
  /\ Len(qInserts) >= 2
  /\ rpRewards = qBefore

(***************************************************************************)
(* C36.  A flag raised while a refresh tick runs.                          *)
(***************************************************************************)
\* C36: a step clears pending_update of an account only when the balance it
\* stores was taken at a block at or above the last block whose reward
\* flagged the account: a flag BlockFetcher raised for a block above the
\* one the running tick queries is not cleared by that tick's upsert.
C36_NoLostRefresh ==
  [][\A i \in DOMAIN raAccounts :
       (raAccounts[i].pending_update /\ ~raAccounts'[i].pending_update) =>
         (raFlagAt[raAccounts[i].address] <= HeightOfHash(raBlock))]_vars

(***************************************************************************)
(* C31.  use_session accepts a known, unexpired token only.                *)
(***************************************************************************)
\* The last step was a call of the repository method.
Called(op) == apiLast'.op = op /\ apiLast'.n # apiLast.n

\* Rows of the table with the id whose expiration is after the time.
ValidSessions(rows, id, now) ==
  {i \in DOMAIN rows : rows[i].id = id /\ rows[i].expiration_ms > now}

\* C31: a use_session that returns a session was called with the id of a
\* stored session whose expiration_ms is greater than the time of the
\* call; called with an id no session has, or with the id of a session
\* whose expiration_ms is not greater, it returns NotFound; and whenever it
\* returns an error the table is left as it was.
C31_UseSessionChecks ==
  [][Called("use_session") =>
       LET id == apiLast'.args[1]
           now == apiLast'.args[2]
       IN  /\ (apiLast'.result = "ok") =>
                (ValidSessions(user_sessions, id, now) # {})
           /\ (ValidSessions(user_sessions, id, now) = {}) =>
                (apiLast'.result = "NotFound" /\ apiLast'.value = None)
           /\ (apiLast'.result # "ok") => (user_sessions' = user_sessions)]_vars

\* use_session was called with the token of a stored session at the very
\* time the session expires, and has returned NotFound.
C31_Witness ==
  /\ apiLast.op = "use_session"
  /\ apiLast.result = "NotFound"
  /\ \E i \in DOMAIN user_sessions :
       /\ user_sessions[i].id = apiLast.args[1]
       /\ user_sessions[i].expiration_ms = apiLast.args[2]

(***************************************************************************)
(* C32.  One session per user.                                             *)
(***************************************************************************)
\* C32: no two sessions have the same user; a create_session leaves the
\* user with one session, which it returns: its id is one no session had,
\* its expiration_ms the time of the call + SESSION_DURATION_MILLIS and its
\* last_use_ms the time of the call; the sessions of the other users are
\* as they were; and the id the user's session had before is the id of no
\* session any more, so that use_session finds nothing for it at any time.
C32_OneSessionPerUser ==
  /\ [](UniqueUserId(user_sessions))
  /\ [][Called("create_session") =>
          LET user_id == apiLast'.args[1]
              now == apiLast'.args[2]
              mine == {i \in DOMAIN user_sessions' : user_sessions'[i].user_id = user_id}
          IN  /\ Cardinality(mine) = 1
              /\ \A i \in mine :
                   /\ apiLast'.value = Some(user_sessions'[i])
                   /\ user_sessions'[i].expiration_ms = now + SESSION_DURATION_MILLIS
                   /\ user_sessions'[i].last_use_ms = now
                   /\ \A j \in DOMAIN user_sessions :
                        user_sessions[j].id # user_sessions'[i].id
              /\ \A j \in DOMAIN user_sessions :
                   IF user_sessions[j].user_id = user_id
                   THEN \A t \in Nows :
                          FindSession(user_sessions', user_sessions[j].id, t) = None
                   ELSE user_sessions'[j] = user_sessions[j]]_vars

\* The session of user 1 was overwritten by a second create_session, and
\* use_session called with the first token, before it would have expired,
\* has returned NotFound.
C32_Witness ==
  /\ apiLast.op = "use_session"
  /\ apiLast.args = <<1, 0>>
  /\ apiLast.result = "NotFound"
  /\ Len(user_sessions) = 1
  /\ user_sessions[1].user_id = 1
  /\ user_sessions[1].id = 2

(***************************************************************************)
(* C40.  What use_session changes.                                         *)
(***************************************************************************)
\* C40: a use_session called with the id of a stored session that has not
\* expired returns that session and changes nothing but its last_use_ms,
\* which becomes the time of the call, however many sessions there are.
C40_OnlyThatSession ==
  [][Called("use_session") =>
       LET id == apiLast'.args[1]
           now == apiLast'.args[2]
       IN  \A i \in ValidSessions(user_sessions, id, now) :
             /\ apiLast'.result = "ok"
             /\ user_sessions' =
                  [user_sessions EXCEPT ![i].last_use_ms = now]]_vars


\* The claims of a request do not hold the admin role.
LacksAdmin(roles) ==
  \/ roles = None
  \/ \A i \in DOMAIN roles[1] : roles[1][i] # "admin"

\* C33: create_user, set_account and create_pair answer Forbidden to claims
\* without the admin role and make no repository call: users, sessions,
\* accounts and pairs are left as they were.  With the admin role the answer
\* is never Forbidden and the repository is called.
C33_AdminOnly ==
  [][(Called("create_user") \/ Called("set_account") \/ Called("create_pair"))
       => IF LacksAdmin(apiLast'.args[1])
          THEN /\ apiLast'.result = "Forbidden"
               /\ apiLast'.calls = <<>>
               /\ UNCHANGED <<users, user_sessions, uuid, ctlAccounts, pairsTable>>
          ELSE /\ apiLast'.result # "Forbidden"
               /\ apiLast'.calls # <<>>]_vars

\* C33: with a user and an account stored, a request whose claims carry an
\* empty list of roles has been answered Forbidden.
C33_Witness ==
  /\ apiLast.result = "Forbidden"
  /\ apiLast.op = "create_pair"
  /\ apiLast.args[1] = Some(<<>>)
  /\ users # <<>>
  /\ ctlAccounts # <<>>

\* The user of a username, as stored.
KnownUser(username) == \E i \in DOMAIN users : users[i].username = username

\* The stored user of the username was created with the password.
PasswordOf(username, password) ==
  \E i \in DOMAIN users :
    /\ users[i].username = username
    /\ users[i].password = HashPassword(password)

\* C34: when the storage answers, authorize gives WrongCredentials both for
\* an unknown username and for a wrong password of a known user, and in
\* neither case calls create_session or changes the sessions; it calls
\* create_session only for a known user whose password matched, and answers
\* ok only with the session of that user stored.
C34_SameAnswer ==
  [][Called("authorize")
       => LET username == apiLast'.args[1]
              password == apiLast'.args[2]
              fail == apiLast'.args[3]
              passed == KnownUser(username) /\ PasswordOf(username, password)
          IN  /\ (~passed /\ fail # "get")
                   => apiLast'.result = "WrongCredentials"
              /\ ~passed
                   => /\ apiLast'.calls = <<"get">>
                      /\ UNCHANGED <<user_sessions, uuid>>
              /\ (\E i \in DOMAIN apiLast'.calls : apiLast'.calls[i] = "create_session")
                   => passed /\ apiLast'.calls = <<"get", "create_session">>
              /\ apiLast'.result = "ok"
                   => /\ passed
                      /\ apiLast'.value # None
                      /\ apiLast'.value[1].id = uuid + 1
                      /\ \E i \in DOMAIN user_sessions' :
                           user_sessions'[i] = apiLast'.value[1]
              /\ UNCHANGED users]_vars

\* C34: a known user with a session has asked with a wrong password and got
\* WrongCredentials.
C34_Witness ==
  /\ apiLast.op = "authorize"
  /\ apiLast.result = "WrongCredentials"
  /\ KnownUser(apiLast.args[1])
  /\ ~PasswordOf(apiLast.args[1], apiLast.args[2])
  /\ user_sessions # <<>>

====
